---- MODULE Spec2Model ----
(***************************************************************************)
(* A model of DosNa: the object-pool dataset engine (dosna/dataset.py) and  *)
(* the in-memory backend (dosna/backends/ram.py).                          *)
(*                                                                         *)
(* Arrays are numpy arrays in C order: a shape and the row-major buffer.   *)
(* Indices are 0-based as in the source; TLA+ sequences are 1-based, so    *)
(* element k of a buffer is flat[k + 1].                                   *)
(***************************************************************************)
EXTENDS Integers, Sequences, FiniteSets, TLC

VARIABLES backend, \* the backend the caller works with: "pool" or "ram"
          pool,    \* the object pool: object name -> object (payload and xattrs)
          handle,  \* the Dataset instances held by the caller: name -> cached fields
          ram,     \* the MemConnection and the objects reachable from it
          run,     \* the parallel read in flight: queued and running tasks, output
          op,      \* the last operation: its name, arguments and outcome
          steps    \* number of operations the caller has performed

vars == <<backend, pool, handle, ram, run, op, steps>>

----------------------------------------------------------------------------
(* Bounds of the model *)

\* largest extent of an axis of a one-axis dataset, and largest chunk size
MaxExtent == 4
\* largest extent of an axis (and chunk size) of a two-axis dataset
MaxExtent2 == 2
\* operations performed on the pool, the first creation included
MaxOps == 3
\* operations performed on an in-memory connection
MaxRamOps == 2
\* characters of a path handed to a lookup or a deletion of a group
MaxPathLen == 3
\* largest extent and chunk size where the chunk/region mapping is checked alone
MaxIterExtent == 7
\* the same for the two-axis datasets of that check
MaxIterExtent2 == 3
\* largest extent of an axis where slice normalization is checked alone
MaxSliceExtent == 2

----------------------------------------------------------------------------
(* numpy arrays *)

Max(a, b) == IF a >= b THEN a ELSE b
Min(a, b) == IF a <= b THEN a ELSE b

RECURSIVE Prod(_)
Prod(s) == IF s = <<>> THEN 1 ELSE Head(s) * Prod(Tail(s))

\* row-major (C order) position of a multi-axis index in a buffer
RECURSIVE Ravel(_, _)
Ravel(idx, shape) ==
    IF idx = <<>> THEN 0
    ELSE Head(idx) * Prod(Tail(shape)) + Ravel(Tail(idx), Tail(shape))

\* np.unravel_index: the multi-axis index of a row-major position
RECURSIVE Unravel(_, _)
Unravel(k, shape) ==
    IF shape = <<>> THEN <<>>
    ELSE LET inner == Prod(Tail(shape))
         IN  <<k \div inner>> \o Unravel(k % inner, Tail(shape))

\* np.ndindex(*shape): every index of the shape, in row-major order
NdIndex(shape) == [j \in 1..Prod(shape) |-> Unravel(j - 1, shape)]

\* np.full(shape, v)
Full(shape, v) == [shape |-> shape, flat |-> [j \in 1..Prod(shape) |-> v]]

\* the absent array (data=None)
NoData == [shape |-> <<>>, flat |-> <<>>]
\* the absent slice list (slices=None)
NoSlices == <<>>

\* Python's resolution of one slice bound against an axis of length n
PyBound(b, n) == IF b < 0 THEN Max(b + n, 0) ELSE Min(b, n)

SliceStart(sl, n) == PyBound(sl.start, n)
SliceLen(sl, n) == Max(0, PyBound(sl.stop, n) - PyBound(sl.start, n))

\* the shape of arr[slices]
SlicedShape(shape, slices) ==
    [k \in 1..Len(shape) |-> SliceLen(slices[k], shape[k])]

\* arr[slices] for a list of slices, one per axis
GetSlicesOf(arr, slices) ==
    LET n  == Len(arr.shape)
        st == [k \in 1..n |-> SliceStart(slices[k], arr.shape[k])]
        ln == SlicedShape(arr.shape, slices)
    IN  [shape |-> ln,
         flat  |-> [j \in 1..Prod(ln) |->
                      LET rel == Unravel(j - 1, ln)
                      IN  arr.flat[1 + Ravel([k \in 1..n |-> st[k] + rel[k]],
                                             arr.shape)]]]

\* numpy broadcasting of a value of shape vs into a target of shape ts
Broadcastable(vs, ts) ==
    /\ Len(vs) = Len(ts)
    /\ \A k \in 1..Len(ts) : vs[k] = ts[k] \/ vs[k] = 1

\* arr[slices] = val, the result array; the caller checks Broadcastable first
AssignSlices(arr, slices, val) ==
    LET n  == Len(arr.shape)
        st == [k \in 1..n |-> SliceStart(slices[k], arr.shape[k])]
        ln == SlicedShape(arr.shape, slices)
    IN  [shape |-> arr.shape,
         flat  |-> [j \in 1..Prod(arr.shape) |->
                      LET idx == Unravel(j - 1, arr.shape)
                      IN  IF \A k \in 1..n :
                                idx[k] >= st[k] /\ idx[k] < st[k] + ln[k]
                          THEN val.flat[1 + Ravel(
                                 [k \in 1..n |-> IF val.shape[k] = 1 THEN 0
                                                 ELSE idx[k] - st[k]],
                                 val.shape)]
                          ELSE arr.flat[j]]]

\* slice(None) on every axis, for slices=None
WholeSlices(shape) == [k \in 1..Len(shape) |-> [start |-> 0, stop |-> shape[k]]]

----------------------------------------------------------------------------
(* The object pool (the rados-backed pool wrapper the engine is handed) *)

\* Dataset.__signature__
Signature == <<"DosNa.Dataset">>

\* the element type of every array of the model
DType == "int64"

\* utils.shape2str / str2shape and dtype2str: the text stored in an xattr
shape2str(shape) == [text |-> shape]
str2shape(t) == t.text
dtype2str(dtype) == [text |-> dtype]

\* the name of a dataset's own object
DsObj(name) == <<name>>

\* pool.stat(name) succeeds / pool.has_chunk(name)
has_object(p, oname) == oname \in DOMAIN p
has_chunk(p, oname) == oname \in DOMAIN p

\* pool.has_dataset(name): an object holding the dataset signature
has_dataset(p, name) ==
    DsObj(name) \in DOMAIN p /\ p[DsObj(name)].payload = Signature

\* pool.write_full(name, payload): replaces the payload, creating the object
write_full(p, oname, bytes, attrs) ==
    [n \in DOMAIN p \cup {oname} |->
        IF n = oname THEN [payload |-> bytes, xattrs |-> attrs] ELSE p[n]]

\* pool.remove_object(name)
remove_object(p, oname) == [n \in DOMAIN p \ {oname} |-> p[n]]

\* outcomes of the engine's internal calls: err = "" when the call returned
Ok(p) == [err |-> "", pool |-> p, val |-> NoData]
OkVal(p, v) == [err |-> "", pool |-> p, val |-> v]
Raise(e, p) == [err |-> e, pool |-> p, val |-> NoData]

----------------------------------------------------------------------------
(* DataChunk *)

\* ndarray.tobytes(): the C-order buffer
tobytes(arr) == arr.flat

\* DataChunk.get_data: the payload read back under the chunk's own shape xattr
get_data(p, oname) ==
    LET shape == str2shape(p[oname].xattrs.shape)
    IN  [shape |-> shape, flat |-> SubSeq(p[oname].payload, 1, Prod(shape))]

\* DataChunk.write: a full rewrite of the payload, the xattrs kept
chunk_write(p, oname, bytes) == [p EXCEPT ![oname].payload = bytes]

\* DataChunk.set_data
set_data(p, oname, data) ==
    IF data.shape # str2shape(p[oname].xattrs.shape)
    THEN Raise("DatasetException: cannot set chunk with data of that shape", p)
    ELSE Ok(chunk_write(p, oname, tobytes(data)))

\* DataChunk.get_slices
get_slices(p, oname, slices) == GetSlicesOf(get_data(p, oname), slices)

\* mutant of set_slices: the update is applied to a blank array instead of
\* the chunk's current content
set_slices_blank(p, oname, slices, value) ==
    LET data == Full(get_data(p, oname).shape, 0)
    IN  IF ~Broadcastable(value.shape, SlicedShape(data.shape, slices))
        THEN Raise("ValueError: could not broadcast input array", p)
        ELSE Ok(chunk_write(p, oname, tobytes(AssignSlices(data, slices, value))))

\* DataChunk.set_slices: read the whole chunk, assign, rewrite the whole chunk
set_slices(p, oname, slices, value) ==
    LET data == get_data(p, oname)
    IN  IF ~Broadcastable(value.shape, SlicedShape(data.shape, slices))
        THEN Raise("ValueError: could not broadcast input array", p)
        ELSE Ok(chunk_write(p, oname, tobytes(AssignSlices(data, slices, value))))

\* DataChunk.create
DataChunk_create(p, oname, shape, dtype, fillvalue, data, slices) ==
    LET narrowed == IF slices # NoSlices THEN GetSlicesOf(data, slices) ELSE data
        target   == IF slices # NoSlices THEN slices ELSE WholeSlices(shape)
        stored(cdata) ==
            Ok(write_full(p, oname, tobytes(cdata),
                          [shape |-> shape2str(cdata.shape),
                           dtype |-> dtype2str(dtype)]))
    IN  IF data = NoData
        THEN stored(Full(shape, fillvalue))
        ELSE IF narrowed.shape = shape
        THEN stored(narrowed)
        ELSE IF \A k \in 1..Min(Len(narrowed.shape), Len(shape)) :
                    narrowed.shape[k] <= shape[k]
        THEN IF Broadcastable(narrowed.shape, SlicedShape(shape, target))
             THEN stored(AssignSlices(Full(shape, fillvalue), target, narrowed))
             ELSE Raise("ValueError: could not broadcast input array", p)
        ELSE Raise("DatasetException: data shape does not match chunk shape", p)

----------------------------------------------------------------------------
(* Dataset: chunk naming and private chunk management *)

\* Dataset.__chunkname: 'DataChunk.' + name + '.' + the index joined by '.'
chunkname(self, chunk_idx) == <<"DataChunk", self.name>> \o chunk_idx

_has_chunk(p, self, chunk_idx) == has_chunk(p, chunkname(self, chunk_idx))

\* Dataset._create_chunk
_create_chunk(p, self, chunk_idx, data, slices) ==
    DataChunk_create(p, chunkname(self, chunk_idx), self.chunk_size, self.dtype,
                     self.fillvalue, data, slices)

\* Dataset._get_existing_chunk_data
_get_existing_chunk_data(p, self, chunk_idx, slices) ==
    IF slices = NoSlices THEN get_data(p, chunkname(self, chunk_idx))
    ELSE get_slices(p, chunkname(self, chunk_idx), slices)

\* Dataset._set_existing_chunk_data
_set_existing_chunk_data(p, self, chunk_idx, data, slices) ==
    IF slices = NoSlices THEN set_data(p, chunkname(self, chunk_idx), data)
    ELSE set_slices(p, chunkname(self, chunk_idx), slices, data)

\* Dataset._get_chunk: the chunk object, created full of fill value if absent
_get_chunk(p, self, chunk_idx) ==
    IF _has_chunk(p, self, chunk_idx) THEN Ok(p)
    ELSE _create_chunk(p, self, chunk_idx, NoData, NoSlices)

\* mutant of _get_chunk_data: reads through _get_chunk, which creates the chunk
_get_chunk_data_creating(p, self, chunk_idx, slices) ==
    LET c == _get_chunk(p, self, chunk_idx)
    IN  OkVal(c.pool, _get_existing_chunk_data(c.pool, self, chunk_idx, slices))

\* Dataset._get_chunk_data: a missing chunk reads as fill value, nothing stored
_get_chunk_data(p, self, chunk_idx, slices) ==
    IF _has_chunk(p, self, chunk_idx)
    THEN OkVal(p, _get_existing_chunk_data(p, self, chunk_idx, slices))
    ELSE LET shape == IF slices = NoSlices THEN self.chunk_size
                      ELSE [k \in 1..Len(slices) |->
                               slices[k].stop - slices[k].start]
         IN  IF \E k \in 1..Len(shape) : shape[k] < 0
             THEN Raise("ValueError: negative dimensions are not allowed", p)
             ELSE OkVal(p, Full(shape, self.fillvalue))

\* Dataset._set_chunk_data: a missing chunk is created by the write
_set_chunk_data(p, self, chunk_idx, data, slices) ==
    IF _has_chunk(p, self, chunk_idx)
    THEN _set_existing_chunk_data(p, self, chunk_idx, data, slices)
    ELSE _create_chunk(p, self, chunk_idx, data, slices)

\* Dataset._delete_chunk
_delete_chunk(p, self, chunk_idx) ==
    IF _has_chunk(p, self, chunk_idx)
    THEN remove_object(p, chunkname(self, chunk_idx))
    ELSE p

----------------------------------------------------------------------------
(* Dataset: slicing *)

\* index entries as the caller writes them; an absent bound (None) is <<>>
IntIdx(k) == [kind |-> "int", start |-> <<k>>, stop |-> <<>>, step |-> <<>>]
SliceIdx(a, b) == [kind |-> "slice", start |-> a, stop |-> b, step |-> <<>>]
SliceStepIdx(a, b, c) == [kind |-> "slice", start |-> a, stop |-> b, step |-> c]
EllipsisIdx == [kind |-> "ellipsis", start |-> <<>>, stop |-> <<>>, step |-> <<>>]
SliceNone == SliceIdx(<<>>, <<>>)

\* a normalized slice
Sl(a, b) == [start |-> a, stop |-> b]

Repeat(x, n) == [j \in 1..n |-> x]

\* the `while Ellipsis in slices` loop of _process_slices
RECURSIVE ExpandEllipsis(_, _)
ExpandEllipsis(slices, nmiss) ==
    IF \E j \in 1..Len(slices) : slices[j].kind = "ellipsis"
    THEN LET idx == CHOOSE j \in 1..Len(slices) :
                       /\ slices[j].kind = "ellipsis"
                       /\ \A i \in 1..(j - 1) : slices[i].kind # "ellipsis"
         IN  ExpandEllipsis(SubSeq(slices, 1, idx - 1)
                              \o Repeat(SliceNone, nmiss + 1)
                              \o SubSeq(slices, idx + 1, Len(slices)),
                            nmiss)
    ELSE slices

\* the body of the `for i, s in enumerate(slices)` loop of _process_slices:
\* the error raised for entry i (1-based here), or "" when it is accepted
EntryError(self, s, i) ==
    IF s.kind = "int" THEN ""
    ELSE IF s.kind = "slice"
    THEN IF i > self.ndim /\ (s.stop = <<>> \/ s.start = <<>> \/ s.start[1] >= 0)
         THEN "IndexError: tuple index out of range"
         ELSE LET start == IF s.start = <<>> THEN 0 ELSE s.start[1]
                  stop  == IF s.stop = <<>> THEN self.shape[i] ELSE s.stop[1]
              IN  IF start < 0 \/ start >= self.shape[i]
                  THEN "DatasetException: only positive and in-bounds slicing"
                  ELSE IF stop < 0 \/ stop > self.shape[i] \/ stop < start
                  THEN "DatasetException: only positive and in-bounds slicing"
                  ELSE IF s.step # <<>> /\ s.step[1] # 1
                  THEN "DatasetException: only slicing with step 1 supported"
                  ELSE ""
    ELSE "DatasetException: invalid type in slicing"

\* the slice appended to final_slices for an accepted entry
EntrySlice(self, s, i) ==
    IF s.kind = "int" THEN Sl(s.start[1], s.start[1] + 1)
    ELSE Sl(IF s.start = <<>> THEN 0 ELSE s.start[1],
            IF s.stop = <<>> THEN self.shape[i] ELSE s.stop[1])

\* Dataset._process_slices(slices, detect_squeeze=True) for a list of entries
_process_slices(self, slices) ==
    IF Len(slices) > self.ndim
    THEN [err |-> "DatasetException: invalid slicing of dataset of that dimension",
          slices |-> <<>>, squeeze |-> {}]
    ELSE LET nmiss    == self.ndim - Len(slices)
             expanded == ExpandEllipsis(slices, nmiss)
             fitted   == IF Len(expanded) < self.ndim
                         THEN expanded \o Repeat(SliceNone, nmiss)
                         ELSE expanded
             bad      == {i \in 1..Len(fitted) : EntryError(self, fitted[i], i) # ""}
         IN  IF bad # {}
             THEN [err |-> EntryError(self, fitted[CHOOSE i \in bad :
                                                     \A j \in bad : i <= j],
                                      CHOOSE i \in bad : \A j \in bad : i <= j),
                   slices |-> <<>>, squeeze |-> {}]
             ELSE [err |-> "",
                   slices |-> [i \in 1..Len(fitted) |-> EntrySlice(self, fitted[i], i)],
                   \* squeeze axes are 0-based, as in the source
                   squeeze |-> {i - 1 : i \in {j \in 1..Len(fitted) :
                                                 fitted[j].kind = "int"}}]

\* mutant of AxisTargets: the last chunk is not capped to the grid
AxisTargets_uncapped(slice_axis, chunk_axis_size, max_chunks) ==
    LET start_chunk == slice_axis.start \div chunk_axis_size
        end_chunk   == slice_axis.stop \div chunk_axis_size
        pad_start   == slice_axis.start - start_chunk * chunk_axis_size
        pad_stop    == slice_axis.stop - Max(0, end_chunk) * chunk_axis_size
    IN  [j \in 1..Max(0, end_chunk + 1 - start_chunk) |->
            LET i      == start_chunk + j - 1
                start  == IF i = start_chunk THEN pad_start ELSE 0
                stop   == IF i = end_chunk THEN pad_stop ELSE chunk_axis_size
                gchunk == i * chunk_axis_size - slice_axis.start
            IN  [index   |-> i,
                 ltarget |-> Sl(start, stop),
                 gtarget |-> Sl(gchunk + start, gchunk + stop)]]

\* the per-axis loop of _get_chunk_slice_iterator: for one axis, the touched
\* chunk indexes with their local (ltarget) and output (gtarget) slices
AxisTargets(slice_axis, chunk_axis_size, max_chunks) ==
    LET start_chunk == slice_axis.start \div chunk_axis_size
        end_chunk   == Min(slice_axis.stop \div chunk_axis_size, max_chunks - 1)
        pad_start   == slice_axis.start - start_chunk * chunk_axis_size
        pad_stop    == slice_axis.stop - Max(0, end_chunk) * chunk_axis_size
    IN  [j \in 1..Max(0, end_chunk + 1 - start_chunk) |->
            LET i      == start_chunk + j - 1
                start  == IF i = start_chunk THEN pad_start ELSE 0
                stop   == IF i = end_chunk THEN pad_stop ELSE chunk_axis_size
                gchunk == i * chunk_axis_size - slice_axis.start
            IN  [index   |-> i,
                 ltarget |-> Sl(start, stop),
                 gtarget |-> Sl(gchunk + start, gchunk + stop)]]

\* Dataset._get_chunk_slice_iterator: the records (idx, cslice, gslice) in the
\* order __chunk_iterator yields them
_get_chunk_slice_iterator(self, slices) ==
    LET n       == Min(Len(slices), Min(Len(self.chunk_size), Len(self.chunks)))
        targets == [a \in 1..n |->
                      AxisTargets(slices[a], self.chunk_size[a], self.chunks[a])]
        order   == NdIndex([a \in 1..n |-> Len(targets[a])])
    IN  [j \in 1..Len(order) |->
            [idx    |-> [a \in 1..n |-> targets[a][order[j][a] + 1].index],
             cslice |-> [a \in 1..n |-> targets[a][order[j][a] + 1].ltarget],
             gslice |-> [a \in 1..n |-> targets[a][order[j][a] + 1].gtarget]]]

----------------------------------------------------------------------------
(* Dataset: construction *)

\* the `chunks` argument of Dataset.create: None, an integer or a sequence
ChunksNone == [kind |-> "none", v |-> <<>>]
ChunksInt(c) == [kind |-> "int", v |-> <<c>>]
ChunksSeq(cs) == [kind |-> "seq", v |-> cs]

\* mutant of CeilDiv: the division truncates
FloorDiv(a, b) == a \div b

\* np.ceil(a / b) for positive integers
CeilDiv(a, b) == (a + b - 1) \div b

\* Dataset._validate_chunk_shape
_validate_chunk_shape(chunks, shape) ==
    IF chunks.kind = "none" THEN [err |-> "", val |-> shape]
    ELSE IF chunks.kind = "int"
    THEN [err |-> "", val |-> Repeat(chunks.v[1], Len(shape))]
    ELSE IF Len(chunks.v) = Len(shape) THEN [err |-> "", val |-> chunks.v]
    ELSE [err |-> "TypeError: int() argument must be a string or a number",
          val |-> <<>>]

\* the chunk grid of Dataset.create: ceil(shape / chunk_size) on every axis
chunks_needed(shape, chunk_size) ==
    [k \in 1..Len(shape) |-> CeilDiv(shape[k], chunk_size[k])]

\* BaseData.__init__ and Dataset.__init__: the fields a Dataset instance caches
\* from the xattrs of its object
Dataset_init(p, name, read_only, njobs) ==
    LET x == p[DsObj(name)].xattrs
    IN  [name         |-> name,
         read_only    |-> read_only,
         shape        |-> str2shape(x.shape),
         ndim         |-> Len(str2shape(x.shape)),
         dtype        |-> x.dtype.text,
         fillvalue    |-> x.fillvalue.text,
         chunks       |-> str2shape(x.chunks),
         chunk_size   |-> str2shape(x.chunk_size),
         total_chunks |-> Prod(str2shape(x.chunks)),
         njobs        |-> njobs]

\* Dataset._gchunk_bounds_slices
_gchunk_bounds_slices(self, idx) ==
    [j \in 1..Min(Len(idx), Len(self.chunk_size)) |->
        Sl(idx[j] * self.chunk_size[j],
           Min((idx[j] + 1) * self.chunk_size[j], self.shape[j]))]

\* mutant of _lchunk_bounds_slices: the bounds in dataset coordinates
_lchunk_bounds_slices_global(self, idx) == _gchunk_bounds_slices(self, idx)

\* Dataset._lchunk_bounds_slices
_lchunk_bounds_slices(self, idx) ==
    [j \in 1..Min(Len(idx), Len(self.chunk_size)) |->
        Sl(0, Min((idx[j] + 1) * self.chunk_size[j], self.shape[j])
                - idx[j] * self.chunk_size[j])]

\* the sequential loop of Dataset.load from chunk j of the grid on: the first
\* failing chunk ends the call, the chunks before it stay written
RECURSIVE LoadFrom(_, _, _, _, _)
LoadFrom(p, self, data, order, j) ==
    IF j > Len(order) THEN Ok(p)
    ELSE LET r == _set_chunk_data(p, self, order[j], data,
                                  _gchunk_bounds_slices(self, order[j]))
         IN  IF r.err # "" THEN r ELSE LoadFrom(r.pool, self, data, order, j + 1)

\* Dataset.load (sequential mode)
load(p, self, data) == LoadFrom(p, self, data, NdIndex(self.chunks), 1)

\* Dataset.create; `data` is NoData when shape is given instead.  The outcome
\* carries the new instance in `ds` when the call returned.
Dataset_create(p, name, shape, fillvalue, chunks, data, read_only, njobs) ==
    LET shp == IF data # NoData THEN data.shape ELSE shape
        cs  == _validate_chunk_shape(chunks, shp)
        p1  == write_full(p, DsObj(name), Signature,
                          [shape      |-> shape2str(shp),
                           dtype      |-> dtype2str(DType),
                           fillvalue  |-> [text |-> fillvalue],
                           chunks     |-> shape2str(chunks_needed(shp, cs.val)),
                           chunk_size |-> shape2str(cs.val)])
        ds  == Dataset_init(p1, name, read_only, njobs)
        ld  == IF data # NoData THEN load(p1, ds, data) ELSE Ok(p1)
    IN  IF has_object(p, DsObj(name))
        THEN [err |-> "DatasetException: object already exists in pool",
              pool |-> p, ds |-> <<>>]
        ELSE IF cs.err # "" THEN [err |-> cs.err, pool |-> p, ds |-> <<>>]
        ELSE IF ld.err # "" THEN [err |-> ld.err, pool |-> ld.pool, ds |-> <<>>]
        ELSE [err |-> "", pool |-> ld.pool, ds |-> <<ds>>]

----------------------------------------------------------------------------
(* Dataset: reading and writing regions (sequential mode) *)

\* the sequential loop of Dataset.__getitem__ from record j of the iterator on
RECURSIVE ReadFrom(_, _, _, _, _)
ReadFrom(p, self, it, j, output) ==
    IF j > Len(it) THEN OkVal(p, output)
    ELSE LET r == _get_chunk_data(p, self, it[j].idx, it[j].cslice)
         IN  IF r.err # "" THEN r
             ELSE IF ~Broadcastable(r.val.shape,
                                    SlicedShape(output.shape, it[j].gslice))
             THEN Raise("ValueError: could not broadcast input array", r.pool)
             ELSE ReadFrom(r.pool, self, it, j + 1,
                           AssignSlices(output, it[j].gslice, r.val))

\* np.squeeze(output, axis=squeeze_axis); the axes are 0-based
RECURSIVE DropAxes(_, _, _)
DropAxes(shape, axes, k) ==
    IF k > Len(shape) THEN <<>>
    ELSE (IF (k - 1) \in axes THEN <<>> ELSE <<shape[k]>>)
           \o DropAxes(shape, axes, k + 1)

Squeeze(arr, axes) == [shape |-> DropAxes(arr.shape, axes, 1), flat |-> arr.flat]

\* the shape of the region a normalized slice list selects
tshape(slices) == [k \in 1..Len(slices) |-> slices[k].stop - slices[k].start]

\* Dataset.__getitem__ (sequential mode)
getitem(p, self, index) ==
    LET ps == _process_slices(self, index)
        it == _get_chunk_slice_iterator(self, ps.slices)
        r  == ReadFrom(p, self, it, 1, Full(tshape(ps.slices), -1))
    IN  IF ps.err # "" THEN Raise(ps.err, p)
        ELSE IF r.err # "" THEN r
        ELSE OkVal(r.pool, Squeeze(r.val, ps.squeeze))

\* the sequential loop of Dataset.__setitem__ from record j of the iterator on
RECURSIVE WriteFrom(_, _, _, _, _)
WriteFrom(p, self, it, j, values) ==
    IF j > Len(it) THEN Ok(p)
    ELSE IF Len(values.shape) < Len(it[j].gslice)
    THEN Raise("IndexError: too many indices for array", p)
    ELSE LET r == _set_chunk_data(p, self, it[j].idx,
                                  GetSlicesOf(values, it[j].gslice), it[j].cslice)
         IN  IF r.err # "" THEN r ELSE WriteFrom(r.pool, self, it, j + 1, values)

\* Dataset.__setitem__ (sequential mode)
setitem(p, self, index, values) ==
    LET ps == _process_slices(self, index)
    IN  IF self.read_only THEN Raise("DatasetException: dataset is read-only", p)
        ELSE IF ps.err # "" THEN Raise(ps.err, p)
        ELSE WriteFrom(p, self, _get_chunk_slice_iterator(self, ps.slices), 1,
                       values)

----------------------------------------------------------------------------
(* Dataset: public chunk management *)

\* a chunk index as the caller writes it: an integer or a tuple
ChunkInt(k) == [kind |-> "int", v |-> <<k>>]
ChunkTuple(t) == [kind |-> "tuple", v |-> t]

\* mutant of _transform_chunk_index: the flat index is unraveled in
\* column-major order
_transform_chunk_index_fortran(self, chunk_idx) ==
    LET idx  == chunk_idx.v
        n    == Len(self.chunks)
        flat == Len(idx) = 1 /\ self.ndim > 1 /\ idx[1] < self.total_chunks
        rev  == Unravel(idx[1], [k \in 1..n |-> self.chunks[n + 1 - k]])
        idx2 == IF flat THEN [k \in 1..n |-> rev[n + 1 - k]] ELSE idx
    IN  IF flat /\ idx[1] < 0
        THEN [err |-> "ValueError: invalid entry in index array", idx |-> <<>>]
        ELSE IF Len(idx2) # Len(self.shape)
        THEN [err |-> "DatasetException: incorrect chunk indexing format",
              idx |-> <<>>]
        ELSE IF \E k \in 1..Len(idx2) : idx2[k] >= self.chunks[k]
        THEN [err |-> "DatasetException: out of limits chunk indexing",
              idx |-> <<>>]
        ELSE [err |-> "", idx |-> idx2]

\* Dataset._transform_chunk_index
_transform_chunk_index(self, chunk_idx) ==
    LET idx  == chunk_idx.v
        flat == Len(idx) = 1 /\ self.ndim > 1 /\ idx[1] < self.total_chunks
        idx2 == IF flat THEN Unravel(idx[1], self.chunks) ELSE idx
    IN  IF flat /\ idx[1] < 0
        THEN [err |-> "ValueError: invalid entry in index array", idx |-> <<>>]
        ELSE IF Len(idx2) # Len(self.shape)
        THEN [err |-> "DatasetException: incorrect chunk indexing format",
              idx |-> <<>>]
        ELSE IF \E k \in 1..Len(idx2) : idx2[k] >= self.chunks[k]
        THEN [err |-> "DatasetException: out of limits chunk indexing",
              idx |-> <<>>]
        ELSE [err |-> "", idx |-> idx2]

\* Dataset.has_chunk
ds_has_chunk(p, self, chunk_idx) ==
    LET t == _transform_chunk_index(self, chunk_idx)
    IN  IF t.err # "" THEN [err |-> t.err, val |-> FALSE]
        ELSE [err |-> "", val |-> _has_chunk(p, self, t.idx)]

\* Dataset.get_chunk
get_chunk(p, self, chunk_idx) ==
    LET t == _transform_chunk_index(self, chunk_idx)
    IN  IF t.err # "" THEN Raise(t.err, p) ELSE _get_chunk(p, self, t.idx)

\* Dataset.get_chunk_data(chunk_idx, slices=None)
get_chunk_data(p, self, chunk_idx) ==
    LET t == _transform_chunk_index(self, chunk_idx)
    IN  IF t.err # "" THEN Raise(t.err, p)
        ELSE _get_chunk_data(p, self, t.idx, NoSlices)

\* Dataset.set_chunk_data(chunk_idx, data, slices=None)
set_chunk_data(p, self, chunk_idx, data) ==
    LET t == _transform_chunk_index(self, chunk_idx)
    IN  IF t.err # "" THEN Raise(t.err, p)
        ELSE _set_chunk_data(p, self, t.idx, data, NoSlices)

----------------------------------------------------------------------------
(* Dataset: deletion, clone, map and apply (sequential mode) *)

\* the loop of Dataset.delete over the chunk grid
RECURSIVE DeleteFrom(_, _, _, _)
DeleteFrom(p, self, order, j) ==
    IF j > Len(order) THEN p
    ELSE DeleteFrom(_delete_chunk(p, self, order[j]), self, order, j + 1)

\* mutant of delete: the chunks are left behind (delete_chunks=False)
delete_no_cascade(p, self) == remove_object(p, DsObj(self.name))

\* Dataset.delete(delete_chunks=True), ending in BaseData.delete
delete(p, self) ==
    remove_object(DeleteFrom(p, self, NdIndex(self.chunks), 1), DsObj(self.name))

\* Dataset.clone
clone(p, self, name) ==
    Dataset_create(p, name, self.shape, self.fillvalue,
                   ChunksSeq(self.chunk_size), NoData, self.read_only, self.njobs)

\* the functions handed to map and apply, applied to every element
Funcs == {"inc", "double"}
ApplyFunc(f, x) == IF f = "inc" THEN x + 1 ELSE 2 * x
func(f, arr) ==
    [shape |-> arr.shape,
     flat  |-> [j \in 1..Len(arr.flat) |-> ApplyFunc(f, arr.flat[j])]]

\* the sequential loop of map and of apply from chunk j of the grid on: read
\* the live region of the chunk of `self` in pool p, write f of it to `dsout`
RECURSIVE MapFrom(_, _, _, _, _, _)
MapFrom(p, self, dsout, f, order, j) ==
    IF j > Len(order) THEN Ok(p)
    ELSE LET slices == _lchunk_bounds_slices(self, order[j])
             r      == _get_chunk_data(p, self, order[j], slices)
             w      == _set_chunk_data(r.pool, dsout, order[j], func(f, r.val),
                                       slices)
         IN  IF r.err # "" THEN r
             ELSE IF w.err # "" THEN w
             ELSE MapFrom(w.pool, self, dsout, f, order, j + 1)

\* the return of Dataset.map: the outcome of the loop with the new instance
MapResult(r, ds) ==
    [err |-> r.err, pool |-> r.pool, ds |-> IF r.err = "" THEN ds ELSE <<>>]

\* Dataset.map after the clone `c`: the loop over the chunk grid
MapInto(c, self, f) ==
    IF c.err # "" THEN c
    ELSE MapResult(MapFrom(c.pool, self, c.ds[1], f, NdIndex(self.chunks), 1),
                   c.ds)

\* Dataset.map (sequential mode); the outcome carries the new instance in `ds`
map(p, self, name, f) == MapInto(clone(p, self, name), self, f)

\* Dataset.apply (sequential mode)
apply(p, self, f) == MapFrom(p, self, self, f, NdIndex(self.chunks), 1)

----------------------------------------------------------------------------
(* The caller's inputs *)

\* dataset names; map writes its result under any of them
Names == {"a", "b"}

\* geometries a dataset is created with: one axis and two axes, the chunk
\* size given per axis, as one integer, or omitted
Geometries ==
    {[shape |-> <<n>>, chunks |-> ChunksSeq(<<c>>)] :
        n \in 1..MaxExtent, c \in 1..MaxExtent}
    \cup {[shape |-> <<n, m>>, chunks |-> ChunksSeq(<<c, d>>)] :
        n \in 1..MaxExtent2, m \in 1..MaxExtent2,
        c \in 1..MaxExtent2, d \in 1..MaxExtent2}
    \cup {[shape |-> <<n>>, chunks |-> ChunksNone] : n \in 1..MaxExtent}
    \cup {[shape |-> <<n, m>>, chunks |-> ChunksInt(c)] :
        n \in 1..MaxExtent2, m \in 1..MaxExtent2, c \in 1..MaxExtent2}

\* fill values: the default of Dataset.create and the one of Dataset.zeros
FillValues == {-1, 0}

\* the in-bounds unit-step indexes of a shape: slice(a, b) on every axis
AxisSlices(n) ==
    {s \in {SliceIdx(<<a>>, <<b>>) : a \in 0..(n - 1), b \in 0..n} :
        s.start[1] <= s.stop[1]}
Regions(shape) ==
    {idx \in [1..Len(shape) -> UNION {AxisSlices(shape[k]) : k \in 1..Len(shape)}] :
        \A k \in 1..Len(shape) : idx[k] \in AxisSlices(shape[k])}

\* the index of the full extent
WholeIndex(shape) == [k \in 1..Len(shape) |-> SliceIdx(<<0>>, <<shape[k]>>)]

\* value arrays: every element differs from its neighbours and from the fill
Bases == {10, 20}
Ramp(shape, base) == [shape |-> shape, flat |-> [j \in 1..Prod(shape) |-> base + j]]

\* the shape an index of explicit slices selects
IndexShape(index) ==
    [k \in 1..Len(index) |-> index[k].stop[1] - index[k].start[1]]

\* the chunk indexes of a grid, as tuples
GridIndexes(chunks) == {NdIndex(chunks)[j] : j \in 1..Prod(chunks)}

----------------------------------------------------------------------------
(* Finite maps: Python dicts and the pool's name table *)

EmptyMap == [n \in {} |-> <<>>]

Bind(f, k, v) == [n \in DOMAIN f \cup {k} |-> IF n = k THEN v ELSE f[n]]
Unbind(f, k) == [n \in DOMAIN f \ {k} |-> f[n]]

----------------------------------------------------------------------------
(* The in-memory backend (backends/ram.py).  Python objects live in an     *)
(* arena, ram.objs: object id -> object; a reference is an object id.      *)

\* attrs=None, and a dict of attributes
AttrsNone == <<>>
AttrsOf(v) == <<v>>

\* chunk_size=None, and a tuple of chunk extents
ChunkSizeNone == <<>>

\* str.isalnum() on the paths the caller passes
isalnum(path) == path \in Names

\* no connection: the caller works with the pool
NoConnection == [root |-> 0, objs |-> <<>>, datasets |-> EmptyMap]

\* id of the object the next constructor call allocates
NewId(c) == Len(c.objs)

\* MemGroup.__init__
MemGroup(c, parent, name, attrs) ==
    [kind          |-> "group",
     parent        |-> parent,
     name          |-> name,
     links         |-> EmptyMap,
     attrs         |-> attrs,
     datasets      |-> EmptyMap,
     absolute_path |-> IF name = "/" THEN <<>>
                       ELSE Append(c.objs[parent[1] + 1].absolute_path, name)]

\* MemLink.__init__
MemLink(source, target, name) ==
    [source |-> source, target |-> target, name |-> name]

\* MemConnection.__init__: the root group is object 0
MemConnection ==
    [root     |-> 0,
     objs     |-> <<MemGroup(NoConnection, <<>>, "/", AttrsNone)>>,
     datasets |-> EmptyMap]

\* the object behind a reference
Obj(c, id) == c.objs[id + 1]

\* the chunk grid of the in-memory create_dataset: ceil(shape / chunk_size)
chunk_grid_of(shape, chunk_size) ==
    [k \in 1..Len(shape) |-> CeilDiv(shape[k], chunk_size[k])]

\* MemDataset.__init__ with _populate_chunks and create_chunk: every chunk of
\* the grid exists from the start, filled with the fill value
MemDataset(owner, name, shape, dtype, fillvalue, chunk_grid, chunk_size) ==
    [kind        |-> "dataset",
     owner       |-> owner,
     name        |-> name,
     shape       |-> shape,
     dtype       |-> dtype,
     fillvalue   |-> fillvalue,
     chunk_grid  |-> chunk_grid,
     chunk_size  |-> chunk_size,
     data_chunks |-> [idx \in GridIndexes(chunk_grid) |->
                         Full(chunk_size, fillvalue)]]

\* outcomes of the in-memory operations: the error (none: "") and the connection
RamOk(c) == [err |-> "", ram |-> c]
RamRaise(e, c) == [err |-> e, ram |-> c]

\* MemGroup.create_group on the group `gid`
MemGroup_create_group(c, gid, path, attrs) ==
    IF ~isalnum(path) THEN RamRaise("Exception: not alphanumeric", c)
    ELSE IF path \in DOMAIN Obj(c, gid).links
    THEN RamRaise("Exception: Group already exists", c)
    ELSE LET id    == NewId(c)
             group == MemGroup(c, <<gid>>, path, attrs)
             link  == MemLink(gid, id, path)
         IN  RamOk([c EXCEPT
                 !.objs = Append([c.objs EXCEPT ![gid + 1].links =
                                     Bind(c.objs[gid + 1].links, path, link)],
                                 group)])

\* MemConnection.create_group
MemConnection_create_group(c, path, attrs) ==
    IF ~isalnum(path) THEN RamRaise("Exception: not alphanumeric", c)
    ELSE IF path # "/" THEN MemGroup_create_group(c, c.root, path, attrs)
    ELSE RamRaise("Exception: Group already exists", c)

\* MemGroup.has_dataset
MemGroup_has_dataset(c, gid, name) == name \in DOMAIN Obj(c, gid).datasets

\* the default dtype of create_dataset, the numpy scalar type np.float32
np_float32 == [type |-> "numpy.float32", name |-> "float32"]

\* MemGroup.create_dataset on the group `gid` (shape and dtype given, no data)
MemGroup_create_dataset(c, gid, name, shape, fillvalue, chunk_size) ==
    IF MemGroup_has_dataset(c, gid, name)
    THEN RamRaise("Exception: Dataset already exists", c)
    ELSE LET cs      == IF chunk_size = ChunkSizeNone THEN shape ELSE chunk_size[1]
             id      == NewId(c)
             dataset == MemDataset(<<gid>>, name, shape, np_float32, fillvalue,
                                   chunk_grid_of(shape, cs), cs)
             link    == MemLink(gid, id, name)
         IN  RamOk([c EXCEPT
                 !.objs = Append([c.objs EXCEPT
                                     ![gid + 1].datasets =
                                         Bind(c.objs[gid + 1].datasets, name, id),
                                     ![gid + 1].links =
                                         Bind(c.objs[gid + 1].links, name, link)],
                                 dataset)])

\* MemConnection.has_dataset
MemConnection_has_dataset(c, name) == name \in DOMAIN c.datasets

\* MemConnection.create_dataset (shape and dtype given, no data)
MemConnection_create_dataset(c, name, shape, fillvalue, chunk_size) ==
    IF MemConnection_has_dataset(c, name)
    THEN RamRaise("Exception: Dataset already exists", c)
    ELSE LET cs      == IF chunk_size = ChunkSizeNone THEN shape ELSE chunk_size[1]
             id      == NewId(c)
             dataset == MemDataset(<<>>, name, shape, np_float32, fillvalue,
                                   chunk_grid_of(shape, cs), cs)
         IN  RamOk([c EXCEPT !.objs = Append(c.objs, dataset),
                             !.datasets = Bind(c.datasets, name, id)])

\* a path string is the sequence of its characters; names are one character
\* long.  str.split("/"): the segments between the slashes, each a sequence
\* of characters ("" is <<>>)
RECURSIVE split(_)
split(path) ==
    IF \A j \in 1..Len(path) : path[j] # "/" THEN <<path>>
    ELSE LET k == CHOOSE j \in 1..Len(path) :
                     /\ path[j] = "/"
                     /\ \A i \in 1..(j - 1) : path[i] # "/"
         IN  <<SubSeq(path, 1, k - 1)>> \o split(SubSeq(path, k + 1, Len(path)))

\* `segment in links`: a segment is a key of the dict when it spells a name
InLinks(links, seg) == Len(seg) = 1 /\ seg[1] \in DOMAIN links

\* Python's None and True as returned values, and the truth test of `if x:`
PyNone == <<>>
PyTrue == <<TRUE>>
Truthy(v) == v # PyNone

\* outcomes of the in-memory lookups: the error (none: ""), and the value
\* returned: an object reference in <<id>>, or PyNone / PyTrue
RamVal(v) == [err |-> "", val |-> v]
RamErr(e) == [err |-> e, val |-> PyNone]

\* _recurse of MemGroup.get_group: follows the segments through the links
\* tables; the reference found, or PyNone when a segment is no key
RECURSIVE get_group_recurse(_, _, _)
get_group_recurse(c, arr, gid) ==
    IF Obj(c, gid).kind # "group"
    THEN RamErr("AttributeError: 'MemDataset' object has no attribute 'links'")
    ELSE IF InLinks(Obj(c, gid).links, arr[1])
    THEN LET link_target == Obj(c, gid).links[arr[1][1]].target
         IN  IF Len(arr) > 1 THEN get_group_recurse(c, Tail(arr), link_target)
             ELSE RamVal(<<link_target>>)
    ELSE RamVal(PyNone)

\* MemGroup.get_group on the group `gid`
MemGroup_get_group(c, gid, path) ==
    LET group == get_group_recurse(c, split(path), gid)
    IN  IF group.err # "" THEN group
        ELSE IF group.val = PyNone THEN RamErr("GroupNotFoundError")
        ELSE group

\* MemConnection.get_group
MemConnection_get_group(c, path) == MemGroup_get_group(c, c.root, path)

\* mutant of MemGroup_has_group: the method returns True
MemGroup_has_group_true(c, gid, path) ==
    LET g == MemGroup_get_group(c, gid, path)
    IN  IF g.err # "" THEN g
        ELSE RamVal(PyTrue)

\* MemGroup.has_group: `True` is an expression statement, the method falls
\* off its end and returns None
MemGroup_has_group(c, gid, path) ==
    LET g == MemGroup_get_group(c, gid, path)
    IN  IF g.err # "" THEN g
        ELSE RamVal(PyNone)

\* MemConnection.has_group
MemConnection_has_group(c, path) == MemGroup_has_group(c, c.root, path)

\* _recurse of MemGroup.del_group: follows the segments and deletes the link
\* of the last one from the links table it is found in
RECURSIVE del_group_recurse(_, _, _)
del_group_recurse(c, arr, gid) ==
    IF Obj(c, gid).kind # "group"
    THEN RamRaise("AttributeError: 'MemDataset' object has no attribute 'links'", c)
    ELSE IF InLinks(Obj(c, gid).links, arr[1])
    THEN IF Len(arr) > 1
         THEN del_group_recurse(c, Tail(arr),
                                Obj(c, gid).links[arr[1][1]].target)
         ELSE RamOk([c EXCEPT !.objs[gid + 1].links =
                                 Unbind(c.objs[gid + 1].links, arr[1][1])])
    ELSE RamOk(c)

\* MemGroup.del_group on the group `gid`
MemGroup_del_group(c, gid, path) ==
    LET h == MemGroup_has_group(c, gid, path)
    IN  IF h.err # "" THEN RamRaise(h.err, c)
        ELSE IF ~Truthy(h.val) THEN RamRaise("GroupNotFoundError", c)
        ELSE del_group_recurse(c, split(path), gid)

\* MemConnection.del_group
MemConnection_del_group(c, path) == MemGroup_del_group(c, c.root, path)

\* MemGroup.del_dataset: the entry leaves the dataset table
MemGroup_del_dataset(c, gid, name) ==
    IF ~MemGroup_has_dataset(c, gid, name)
    THEN RamRaise("DatasetNotFoundError", c)
    ELSE RamOk([c EXCEPT !.objs[gid + 1].datasets =
                            Unbind(c.objs[gid + 1].datasets, name)])

\* MemConnection.del_dataset
MemConnection_del_dataset(c, name) ==
    IF ~MemConnection_has_dataset(c, name)
    THEN RamRaise("DatasetNotFoundError", c)
    ELSE RamOk([c EXCEPT !.datasets = Unbind(c.datasets, name)])

\* MemGroup.keys: the names of the links
MemGroup_keys(c, gid) == DOMAIN Obj(c, gid).links

\* MemGroup.values: the targets of the links
MemGroup_values(c, gid) ==
    {Obj(c, gid).links[n].target : n \in DOMAIN Obj(c, gid).links}

\* MemGroup.items: link name -> target
MemGroup_items(c, gid) ==
    [n \in {Obj(c, gid).links[k].name : k \in DOMAIN Obj(c, gid).links} |->
        Obj(c, gid).links[n].target]

\* MemGroup.get_objects: the link names of the group and of every group
\* below it (as a set; the source returns them in dict order)
RECURSIVE MemGroup_get_objects(_, _)
MemGroup_get_objects(c, gid) ==
    DOMAIN Obj(c, gid).links
    \cup UNION {IF Obj(c, Obj(c, gid).links[n].target).kind = "group"
                THEN MemGroup_get_objects(c, Obj(c, gid).links[n].target)
                ELSE {} : n \in DOMAIN Obj(c, gid).links}

----------------------------------------------------------------------------
(* The parallel branch of Dataset.__getitem__ (njobs > 1): one task per    *)
(* record of the chunk iterator, run by a pool of njobs threads            *)

\* no parallel call in flight
Idle == [ds |-> "", index |-> <<>>, squeeze |-> {}, pending |-> <<>>,
         total |-> 0, inflight |-> {}, output |-> NoData]

\* Dataset._make_temporary_memmap(filename, shape=shape): np.memmap in mode
\* 'w+' maps a zero-filled scratch file of the array's size; a file of no
\* bytes cannot be mapped
_make_temporary_memmap(shape) ==
    IF Prod(shape) = 0
    THEN [err |-> "ValueError: cannot mmap an empty file", val |-> NoData]
    ELSE [err |-> "", val |-> Full(shape, 0)]

\* _get_chunk_data_parallel, the store half: doutput[gslice] = <fetched data>
_get_chunk_data_parallel(doutput, gslice, data) ==
    IF ~Broadcastable(data.shape, SlicedShape(doutput.shape, gslice))
    THEN [err |-> "ValueError: could not broadcast input array", val |-> doutput]
    ELSE [err |-> "", val |-> AssignSlices(doutput, gslice, data)]

----------------------------------------------------------------------------
(* The state machine *)

Init ==
    /\ backend = "pool"
    /\ ram = NoConnection
    /\ run = Idle
    /\ pool = EmptyMap
    /\ handle = EmptyMap
    /\ op = [name |-> "init", err |-> ""]
    /\ steps = 0

\* Dataset.create(pool, name, shape=..., fillvalue=..., chunks=..., read_only=...)
Create(name, g, fill, ro, njobs) ==
    /\ steps < MaxOps
    /\ backend = "pool"
    /\ run = Idle
    /\ LET r == Dataset_create(pool, name, g.shape, fill, g.chunks, NoData, ro,
                               njobs)
       IN  /\ pool' = r.pool
           /\ handle' = IF r.err = "" THEN Bind(handle, name, r.ds[1]) ELSE handle
           /\ op' = [name |-> "create", ds |-> name, err |-> r.err,
                     shape |-> g.shape, chunks |-> g.chunks]
    /\ steps' = steps + 1
    /\ UNCHANGED <<backend, ram, run>>

\* Dataset(pool, name, read_only=ro): the caller reopens the dataset
Open(name, ro) ==
    /\ steps < MaxOps
    /\ backend = "pool"
    /\ run = Idle
    /\ has_dataset(pool, name)
    /\ handle' = Bind(handle, name, Dataset_init(pool, name, ro, handle[name].njobs))
    /\ op' = [name |-> "open", ds |-> name, err |-> ""]
    /\ steps' = steps + 1
    /\ UNCHANGED <<backend, ram, run>>
    /\ UNCHANGED pool

\* ds[index] = values
SetItem(name, index, base) ==
    /\ steps < MaxOps
    /\ backend = "pool"
    /\ run = Idle
    /\ handle[name].njobs = 1
    /\ LET values == Ramp(IndexShape(index), base)
           r      == setitem(pool, handle[name], index, values)
       IN  /\ pool' = r.pool
           /\ op' = [name |-> "setitem", ds |-> name, err |-> r.err,
                     index |-> index, values |-> values]
    /\ steps' = steps + 1
    /\ UNCHANGED <<backend, ram, run>>
    /\ UNCHANGED handle

\* ds[index]
GetItem(name, index) ==
    /\ steps < MaxOps
    /\ backend = "pool"
    /\ run = Idle
    /\ handle[name].njobs = 1
    /\ LET r == getitem(pool, handle[name], index)
       IN  /\ pool' = r.pool
           /\ op' = [name |-> "getitem", ds |-> name, err |-> r.err,
                     index |-> index, result |-> r.val]
    /\ steps' = steps + 1
    /\ UNCHANGED <<backend, ram, run>>
    /\ UNCHANGED handle

\* ds.get_chunk(chunk_idx)
GetChunk(name, chunk_idx) ==
    /\ steps < MaxOps
    /\ backend = "pool"
    /\ run = Idle
    /\ LET r == get_chunk(pool, handle[name], chunk_idx)
       IN  /\ pool' = r.pool
           /\ op' = [name |-> "get_chunk", ds |-> name, err |-> r.err,
                     chunk_idx |-> chunk_idx]
    /\ steps' = steps + 1
    /\ UNCHANGED <<backend, ram, run>>
    /\ UNCHANGED handle

\* ds.get_chunk_data(chunk_idx)
GetChunkData(name, chunk_idx) ==
    /\ steps < MaxOps
    /\ backend = "pool"
    /\ run = Idle
    /\ LET r == get_chunk_data(pool, handle[name], chunk_idx)
       IN  /\ pool' = r.pool
           /\ op' = [name |-> "get_chunk_data", ds |-> name, err |-> r.err,
                     chunk_idx |-> chunk_idx, result |-> r.val]
    /\ steps' = steps + 1
    /\ UNCHANGED <<backend, ram, run>>
    /\ UNCHANGED handle

\* ds.set_chunk_data(chunk_idx, data)
SetChunkData(name, chunk_idx, base) ==
    /\ steps < MaxOps
    /\ backend = "pool"
    /\ run = Idle
    /\ LET data == Ramp(handle[name].chunk_size, base)
           r    == set_chunk_data(pool, handle[name], chunk_idx, data)
       IN  /\ pool' = r.pool
           /\ op' = [name |-> "set_chunk_data", ds |-> name, err |-> r.err,
                     chunk_idx |-> chunk_idx, values |-> data]
    /\ steps' = steps + 1
    /\ UNCHANGED <<backend, ram, run>>
    /\ UNCHANGED handle

\* ds.load(data)
Load(name, base) ==
    /\ steps < MaxOps
    /\ backend = "pool"
    /\ run = Idle
    /\ handle[name].njobs = 1
    /\ LET data == Ramp(handle[name].shape, base)
           r    == load(pool, handle[name], data)
       IN  /\ pool' = r.pool
           /\ op' = [name |-> "load", ds |-> name, err |-> r.err, values |-> data]
    /\ steps' = steps + 1
    /\ UNCHANGED <<backend, ram, run>>
    /\ UNCHANGED handle

\* ds.map(newname, f)
Map(name, newname, f) ==
    /\ steps < MaxOps
    /\ backend = "pool"
    /\ run = Idle
    /\ handle[name].njobs = 1
    /\ LET r == map(pool, handle[name], newname, f)
       IN  /\ pool' = r.pool
           /\ handle' = IF r.err = "" THEN Bind(handle, newname, r.ds[1])
                        ELSE handle
           /\ op' = [name |-> "map", ds |-> name, err |-> r.err,
                     out |-> newname, f |-> f]
    /\ steps' = steps + 1
    /\ UNCHANGED <<backend, ram, run>>

\* ds.apply(f)
Apply(name, f) ==
    /\ steps < MaxOps
    /\ backend = "pool"
    /\ run = Idle
    /\ handle[name].njobs = 1
    /\ LET r == apply(pool, handle[name], f)
       IN  /\ pool' = r.pool
           /\ op' = [name |-> "apply", ds |-> name, err |-> r.err, f |-> f]
    /\ steps' = steps + 1
    /\ UNCHANGED <<backend, ram, run>>
    /\ UNCHANGED handle

\* ds.delete(); the caller drops the instance
Delete(name) ==
    /\ steps < MaxOps
    /\ backend = "pool"
    /\ run = Idle
    /\ pool' = delete(pool, handle[name])
    /\ handle' = Unbind(handle, name)
    /\ op' = [name |-> "delete", ds |-> name, err |-> "",
              chunks |-> handle[name].chunks,
              existed |-> {t \in GridIndexes(handle[name].chunks) :
                             _has_chunk(pool, handle[name], t)}]
    /\ steps' = steps + 1
    /\ UNCHANGED <<backend, ram, run>>

Next ==
    \/ \E g \in Geometries, fill \in FillValues : Create("a", g, fill, FALSE, 1)
    \/ \E name \in DOMAIN handle, ro \in BOOLEAN : Open(name, ro)
    \/ \E name \in DOMAIN handle :
          \E index \in Regions(handle[name].shape), base \in Bases :
             SetItem(name, index, base)
    \/ \E name \in DOMAIN handle :
          \E index \in Regions(handle[name].shape) : GetItem(name, index)
    \/ \E name \in DOMAIN handle :
          \E t \in GridIndexes(handle[name].chunks) : GetChunk(name, ChunkTuple(t))
    \/ \E name \in DOMAIN handle :
          \E t \in GridIndexes(handle[name].chunks) :
             GetChunkData(name, ChunkTuple(t))
    \/ \E name \in DOMAIN handle :
          \E t \in GridIndexes(handle[name].chunks) :
             SetChunkData(name, ChunkTuple(t), 30)
    \/ \E name \in DOMAIN handle : Load(name, 40)
    \/ \E name \in DOMAIN handle, newname \in Names, f \in Funcs :
          Map(name, newname, f)
    \/ \E name \in DOMAIN handle, f \in Funcs : Apply(name, f)
    \/ \E name \in DOMAIN handle : Delete(name)

Spec == Init /\ [][Next]_vars

\* Dataset(pool, name, njobs=njobs): the caller reopens the dataset with a
\* parallelism width
OpenJobs(name, njobs) ==
    /\ steps < MaxOps
    /\ backend = "pool"
    /\ run = Idle
    /\ has_dataset(pool, name)
    /\ handle' = Bind(handle, name,
                      Dataset_init(pool, name, handle[name].read_only, njobs))
    /\ op' = [name |-> "open", ds |-> name, err |-> ""]
    /\ steps' = steps + 1
    /\ UNCHANGED <<backend, pool, ram, run>>

\* ds[index] with njobs > 1, up to the dispatch of the tasks: the slices are
\* normalized, the output is memory-mapped and the tasks are queued
ParGetItem(name, index) ==
    /\ backend = "pool"
    /\ run = Idle
    /\ handle[name].njobs > 1
    /\ LET self == handle[name]
           ps   == _process_slices(self, index)
           mm   == _make_temporary_memmap(tshape(ps.slices))
           it   == _get_chunk_slice_iterator(self, ps.slices)
           e    == IF ps.err # "" THEN ps.err ELSE mm.err
       IN  IF e # ""
           THEN /\ op' = [name |-> "getitem_parallel", ds |-> name, err |-> e,
                          index |-> index, result |-> NoData]
                /\ run' = Idle
           ELSE /\ op' = [name |-> "getitem_running", ds |-> name, err |-> ""]
                /\ run' = [ds |-> name, index |-> index, squeeze |-> ps.squeeze,
                           pending |-> it, total |-> Len(it), inflight |-> {},
                           output |-> mm.val]
    /\ UNCHANGED <<backend, pool, handle, ram, steps>>

\* a free thread takes the next task and evaluates the right-hand side of
\* _get_chunk_data_parallel: inst._get_chunk_data(chunk_idx, slices=cslice)
TaskFetch ==
    /\ run.ds # ""
    /\ run.pending # <<>>
    /\ Cardinality(run.inflight) < handle[run.ds].njobs
    /\ LET rec == Head(run.pending)
           r   == _get_chunk_data(pool, handle[run.ds], rec.idx, rec.cslice)
       IN  /\ pool' = r.pool
           /\ IF r.err # ""
              THEN /\ op' = [name |-> "getitem_parallel", ds |-> run.ds,
                             err |-> r.err, index |-> run.index,
                             result |-> NoData]
                   /\ run' = Idle
              ELSE /\ run' = [run EXCEPT
                         !.pending = Tail(run.pending),
                         !.inflight = run.inflight \cup
                             {[seq    |-> run.total - Len(run.pending),
                               gslice |-> rec.gslice,
                               data   |-> r.val]}]
                   /\ UNCHANGED op
    /\ UNCHANGED <<backend, handle, ram, steps>>

\* a running task stores what it fetched into the shared output
TaskStore(t) ==
    /\ run.ds # ""
    /\ t \in run.inflight
    /\ LET w == _get_chunk_data_parallel(run.output, t.gslice, t.data)
       IN  IF w.err # ""
           THEN /\ op' = [name |-> "getitem_parallel", ds |-> run.ds,
                          err |-> w.err, index |-> run.index, result |-> NoData]
                /\ run' = Idle
           ELSE /\ run' = [run EXCEPT !.inflight = run.inflight \ {t},
                                      !.output = w.val]
                /\ UNCHANGED op
    /\ UNCHANGED <<backend, pool, handle, ram, steps>>

\* every task has finished: np.asarray(output), squeezed, is returned
ParJoin ==
    /\ run.ds # ""
    /\ run.pending = <<>>
    /\ run.inflight = {}
    /\ op' = [name |-> "getitem_parallel", ds |-> run.ds, err |-> "",
              index |-> run.index, result |-> Squeeze(run.output, run.squeeze)]
    /\ run' = Idle
    /\ UNCHANGED <<backend, pool, handle, ram, steps>>

\* the widths a dataset is reopened with
Widths == {2}

NextPar ==
    \/ \E g \in Geometries, fill \in FillValues : Create("a", g, fill, FALSE, 1)
    \/ \E name \in DOMAIN handle :
          \E index \in Regions(handle[name].shape) : SetItem(name, index, 10)
    \/ \E name \in DOMAIN handle : Load(name, 40)
    \/ \E name \in DOMAIN handle, njobs \in Widths : OpenJobs(name, njobs)
    \/ \E name \in DOMAIN handle :
          \E index \in Regions(handle[name].shape) : ParGetItem(name, index)
    \/ TaskFetch
    \/ \E t \in run.inflight : TaskStore(t)
    \/ ParJoin

SpecPar == Init /\ [][NextPar]_vars

----------------------------------------------------------------------------
(* The caller of the in-memory backend, and creation on both backends *)

\* the state after MemConnection is constructed
InitRam ==
    /\ backend = "ram"
    /\ ram = MemConnection
    /\ run = Idle
    /\ pool = EmptyMap
    /\ handle = EmptyMap
    /\ op = [name |-> "init", err |-> ""]
    /\ steps = 0

\* the paths handed to create_group: two names and the root's
Paths == Names \cup {"/"}

\* the attributes handed to create_group
AttrChoices == {AttrsNone, AttrsOf("x")}

\* geometries of in-memory datasets: chunk_size a tuple or omitted
RamGeometries ==
    {[shape |-> <<n>>, chunk_size |-> <<(<<c>>)>>] :
        n \in 1..MaxExtent, c \in 1..MaxExtent}
    \cup {[shape |-> <<n, m>>, chunk_size |-> <<(<<c, d>>)>>] :
        n \in 1..MaxExtent2, m \in 1..MaxExtent2,
        c \in 1..MaxExtent2, d \in 1..MaxExtent2}
    \cup {[shape |-> <<n>>, chunk_size |-> ChunkSizeNone] : n \in 1..MaxExtent}

\* the groups the caller holds a reference to: every group ever returned
GroupIds == {i \in 0..(Len(ram.objs) - 1) : Obj(ram, i).kind = "group"}

\* connection.create_group(path, attrs)
ConnCreateGroup(path, attrs) ==
    /\ steps < MaxRamOps
    /\ backend = "ram"
    /\ LET r == MemConnection_create_group(ram, path, attrs)
       IN  /\ ram' = r.ram
           /\ op' = [name |-> "create_group", err |-> r.err,
                     scope |-> "connection", group |-> ram.root,
                     path |-> path, id |-> NewId(ram)]
    /\ steps' = steps + 1
    /\ UNCHANGED <<backend, pool, handle, run>>

\* group.create_group(path, attrs)
GroupCreateGroup(gid, path, attrs) ==
    /\ steps < MaxRamOps
    /\ backend = "ram"
    /\ LET r == MemGroup_create_group(ram, gid, path, attrs)
       IN  /\ ram' = r.ram
           /\ op' = [name |-> "create_group", err |-> r.err,
                     scope |-> "group", group |-> gid,
                     path |-> path, id |-> NewId(ram)]
    /\ steps' = steps + 1
    /\ UNCHANGED <<backend, pool, handle, run>>

\* connection.create_dataset(name, shape=..., fillvalue=..., chunk_size=...)
ConnCreateDataset(name, g, fill) ==
    /\ steps < MaxRamOps
    /\ backend = "ram"
    /\ LET r == MemConnection_create_dataset(ram, name, g.shape, fill,
                                             g.chunk_size)
       IN  /\ ram' = r.ram
           /\ op' = [name |-> "create_dataset", err |-> r.err,
                     scope |-> "connection", group |-> ram.root,
                     path |-> name, id |-> NewId(ram),
                     chunk_size |-> g.chunk_size]
    /\ steps' = steps + 1
    /\ UNCHANGED <<backend, pool, handle, run>>

\* group.create_dataset(name, shape=..., fillvalue=..., chunk_size=...)
GroupCreateDataset(gid, name, g, fill) ==
    /\ steps < MaxRamOps
    /\ backend = "ram"
    /\ LET r == MemGroup_create_dataset(ram, gid, name, g.shape, fill,
                                        g.chunk_size)
       IN  /\ ram' = r.ram
           /\ op' = [name |-> "create_dataset", err |-> r.err,
                     scope |-> "group", group |-> gid,
                     path |-> name, id |-> NewId(ram),
                     chunk_size |-> g.chunk_size]
    /\ steps' = steps + 1
    /\ UNCHANGED <<backend, pool, handle, run>>

NextCreate ==
    \/ \E name \in Names, g \in Geometries : Create(name, g, -1, FALSE, 1)
    \/ \E name \in DOMAIN handle : Load(name, 40)
    \/ \E path \in Paths, attrs \in AttrChoices : ConnCreateGroup(path, attrs)
    \/ \E gid \in GroupIds, path \in Paths, attrs \in AttrChoices :
          GroupCreateGroup(gid, path, attrs)
    \/ \E name \in Names, g \in RamGeometries : ConnCreateDataset(name, g, 0)
    \/ \E gid \in GroupIds, name \in Names, g \in RamGeometries :
          GroupCreateDataset(gid, name, g, 0)

SpecCreate == (Init \/ InitRam) /\ [][NextCreate]_vars

----------------------------------------------------------------------------
(* The caller of the in-memory backend: creations, then lookups and         *)
(* deletions                                                                *)

\* the paths looked up: every string of names and slashes
PathChars == Names \cup {"/"}
LookupPaths == UNION {[1..l -> PathChars] : l \in 0..MaxPathLen}

\* the geometries of the datasets created here
SmallRamGeometries ==
    {[shape |-> <<3>>, chunk_size |-> <<(<<2>>)>>],
     [shape |-> <<2>>, chunk_size |-> ChunkSizeNone]}

\* a lookup or a deletion follows the creations
RamStep ==
    /\ steps <= MaxRamOps
    /\ backend = "ram"
    /\ steps' = steps + 1
    /\ UNCHANGED <<backend, pool, handle, run>>

\* group.has_group(path), and connection.has_group(path)
GroupHasGroup(gid, path) ==
    /\ RamStep
    /\ LET r == MemGroup_has_group(ram, gid, path)
       IN  op' = [name |-> "has_group", err |-> r.err, scope |-> "group",
                  group |-> gid, path |-> path, result |-> r.val]
    /\ UNCHANGED ram

ConnHasGroup(path) ==
    /\ RamStep
    /\ LET r == MemConnection_has_group(ram, path)
       IN  op' = [name |-> "has_group", err |-> r.err, scope |-> "connection",
                  group |-> ram.root, path |-> path, result |-> r.val]
    /\ UNCHANGED ram

\* group.del_group(path), and connection.del_group(path)
GroupDelGroup(gid, path) ==
    /\ RamStep
    /\ LET r == MemGroup_del_group(ram, gid, path)
       IN  /\ ram' = r.ram
           /\ op' = [name |-> "del_group", err |-> r.err, scope |-> "group",
                     group |-> gid, path |-> path]

ConnDelGroup(path) ==
    /\ RamStep
    /\ LET r == MemConnection_del_group(ram, path)
       IN  /\ ram' = r.ram
           /\ op' = [name |-> "del_group", err |-> r.err,
                     scope |-> "connection", group |-> ram.root, path |-> path]

\* group.del_dataset(name), and connection.del_dataset(name)
GroupDelDataset(gid, name) ==
    /\ RamStep
    /\ LET r == MemGroup_del_dataset(ram, gid, name)
       IN  /\ ram' = r.ram
           /\ op' = [name |-> "del_dataset", err |-> r.err, scope |-> "group",
                     group |-> gid, path |-> name]

ConnDelDataset(name) ==
    /\ RamStep
    /\ LET r == MemConnection_del_dataset(ram, name)
       IN  /\ ram' = r.ram
           /\ op' = [name |-> "del_dataset", err |-> r.err,
                     scope |-> "connection", group |-> ram.root, path |-> name]

NextRam ==
    \/ \E path \in Paths : ConnCreateGroup(path, AttrsNone)
    \/ \E gid \in GroupIds, path \in Paths : GroupCreateGroup(gid, path, AttrsNone)
    \/ \E name \in Names, g \in SmallRamGeometries : ConnCreateDataset(name, g, 0)
    \/ \E gid \in GroupIds, name \in Names, g \in SmallRamGeometries :
          GroupCreateDataset(gid, name, g, 0)
    \/ \E gid \in GroupIds, path \in LookupPaths : GroupHasGroup(gid, path)
    \/ \E path \in LookupPaths : ConnHasGroup(path)
    \/ \E gid \in GroupIds, path \in LookupPaths : GroupDelGroup(gid, path)
    \/ \E path \in LookupPaths : ConnDelGroup(path)
    \/ \E gid \in GroupIds, name \in Names : GroupDelDataset(gid, name)
    \/ \E name \in Names : ConnDelDataset(name)

SpecRam == InitRam /\ [][NextRam]_vars

----------------------------------------------------------------------------
(* What the claims speak about *)

\* the caller's index as the region it names: [start, stop) on every axis
RegionOf(index) == [k \in 1..Len(index) |-> Sl(index[k].start[1], index[k].stop[1])]

\* the chunk indexes of the grid holding at least one position of a region
ChunksOfRegion(self, region) ==
    {t \in GridIndexes(self.chunks) :
        \A k \in 1..Len(region) :
            Max(region[k].start, t[k] * self.chunk_size[k])
              < Min(region[k].stop, (t[k] + 1) * self.chunk_size[k])}

\* the element stored for position pos of the dataset: the chunk holding it is
\* pos div chunk_size, the place in the chunk is pos mod chunk_size, and a
\* position whose chunk has no object holds the fill value
Elem(p, self, pos) ==
    LET t     == [k \in 1..Len(pos) |-> pos[k] \div self.chunk_size[k]]
        local == [k \in 1..Len(pos) |-> pos[k] % self.chunk_size[k]]
        oname == <<"DataChunk", self.name>> \o t
    IN  IF oname \in DOMAIN p
        THEN p[oname].payload[1 + Ravel(local, p[oname].xattrs.shape.text)]
        ELSE self.fillvalue

\* the positions of a shape
Positions(shape) == {NdIndex(shape)[j] : j \in 1..Prod(shape)}

\* the last operation was a region write that returned
Wrote == op.name = "setitem" /\ op.err = ""

\* the array a sequential read of the last operation's region returns now
ReadBack == getitem(pool, handle[op.ds], op.index)

\* C1 (as claimed): after a region write ds[R] = V returns, in sequential mode,
\* reading ds[R] returns exactly V, whether the touched chunks existed before
\* or were created by the write and whatever the offset of R in its first chunk.
C1_WriteReadRoundTrip ==
    Wrote => (ReadBack.err = "" /\ ReadBack.val = op.values)

\* C2 (as claimed): load(data) on a freshly created dataset returns without
\* error, and a read of the full extent then returns data unchanged, also when
\* the chunk size does not divide the shape.
C2_LoadReadRoundTrip ==
    (op.name = "load" /\ steps = 2) =>
        /\ op.err = ""
        /\ getitem(pool, handle[op.ds], WholeIndex(handle[op.ds].shape)).val
             = op.values

\* a step of the caller: every operation counts one
Step == steps' = steps + 1

\* the chunk objects of the grid of a dataset that exist in pool p
Materialized(p, self) ==
    {t \in GridIndexes(self.chunks) : _has_chunk(p, self, t)}

\* C3: a read of a region lying in chunks that were never written, or of such
\* a chunk, returns an array entirely equal to the fill value and leaves the
\* set of pool objects as it was.
C3_LazyFillRead ==
    [][/\ (/\ Step
           /\ op'.name = "getitem"
           /\ ChunksOfRegion(handle[op'.ds], RegionOf(op'.index))
                \cap Materialized(pool, handle[op'.ds]) = {})
          => /\ op'.err = ""
             /\ op'.result = Full(IndexShape(op'.index), handle[op'.ds].fillvalue)
             /\ DOMAIN pool' = DOMAIN pool
       /\ (/\ Step
           /\ op'.name = "get_chunk_data"
           /\ op'.chunk_idx.v \notin Materialized(pool, handle[op'.ds]))
          => /\ op'.err = ""
             /\ op'.result = Full(handle[op'.ds].chunk_size,
                                  handle[op'.ds].fillvalue)
             /\ DOMAIN pool' = DOMAIN pool]_vars

\* C3 witness: a non-empty region read in a dataset of which other chunks were
\* written, the region's own chunks having no object
C3_Witness ==
    /\ op.name = "getitem" /\ op.err = ""
    /\ Prod(op.result.shape) > 0
    /\ Materialized(pool, handle[op.ds]) # {}
    /\ ChunksOfRegion(handle[op.ds], RegionOf(op.index))
         \cap Materialized(pool, handle[op.ds]) = {}

\* C4 (as claimed): on a dataset opened read-only every write attempt (region
\* assignment, set_chunk_data, load, apply) fails with the read-only error and
\* leaves the pool unchanged.
C4_ReadOnlyEnforced ==
    [][(/\ Step
        /\ op'.name \in {"setitem", "set_chunk_data", "load", "apply"}
        /\ handle[op'.ds].read_only)
       => /\ op'.err = "DatasetException: dataset is read-only"
          /\ pool' = pool]_vars

\* C8: map leaves every chunk object of the source as it was and, when it
\* returns, the new dataset holds f of the source at every position of the
\* shape (a position in a never-written chunk counting as the fill value);
\* apply leaves the source itself holding f of what it held.
C8_MapApply ==
    [][/\ (Step /\ op'.name = "map")
          => LET src == handle[op'.ds]
             IN  /\ Materialized(pool', src) = Materialized(pool, src)
                 /\ \A t \in Materialized(pool, src) :
                       pool'[chunkname(src, t)] = pool[chunkname(src, t)]
                 /\ ~has_object(pool, DsObj(op'.out)) => op'.err = ""
                 /\ op'.err = "" =>
                       /\ handle'[op'.out].shape = src.shape
                       /\ \A pos \in Positions(src.shape) :
                             Elem(pool', handle'[op'.out], pos)
                               = ApplyFunc(op'.f, Elem(pool, src, pos))
       /\ (Step /\ op'.name = "apply")
          => LET src == handle[op'.ds]
             IN  /\ op'.err = ""
                 /\ \A pos \in Positions(src.shape) :
                       Elem(pool', src, pos) = ApplyFunc(op'.f, Elem(pool, src, pos))
      ]_vars

\* C8 witness: map has returned for a source of several chunks, some written
\* and some not, whose last chunk is only partly live
C8_Witness ==
    /\ op.name = "map" /\ op.err = ""
    /\ LET src == handle[op.ds]
       IN  /\ Materialized(pool, src) # {}
           /\ Materialized(pool, src) # GridIndexes(src.chunks)
           /\ \E k \in 1..src.ndim : src.shape[k] % src.chunk_size[k] # 0

\* C9: after delete() with the default cascade the pool holds no chunk object
\* for any index of the dataset's grid and no object named as the dataset.
C9_DeleteCascade ==
    op.name = "delete" =>
        /\ DsObj(op.ds) \notin DOMAIN pool
        /\ \A t \in GridIndexes(op.chunks) :
              (<<"DataChunk", op.ds>> \o t) \notin DOMAIN pool

\* C9 witness: the deleted dataset had some chunks materialized and some not
C9_Witness ==
    /\ op.name = "delete"
    /\ op.existed # {}
    /\ op.existed # GridIndexes(op.chunks)

----------------------------------------------------------------------------
(* The chunk/region mapping on its own, over larger geometries *)

IterGeometries ==
    {[shape |-> <<n>>, chunks |-> ChunksSeq(<<c>>)] :
        n \in 1..MaxIterExtent, c \in 1..MaxIterExtent}
    \cup {[shape |-> <<n, m>>, chunks |-> ChunksSeq(<<c, d>>)] :
        n \in 1..MaxIterExtent2, m \in 1..MaxIterExtent2,
        c \in 1..MaxIterExtent2, d \in 1..MaxIterExtent2}

\* a dataset is created, an index normalized and its chunk iterator drained
Iterate(g, index) ==
    LET self == Dataset_create(EmptyMap, "a", g.shape, 0, g.chunks, NoData,
                               FALSE, 1).ds[1]
        ps   == _process_slices(self, index)
    IN  /\ steps = 0
        /\ ps.err = ""
        /\ steps' = 1
        /\ op' = [name |-> "iterator", err |-> "", self |-> self,
                  slices |-> ps.slices,
                  records |-> _get_chunk_slice_iterator(self, ps.slices)]
        /\ UNCHANGED <<backend, pool, handle, ram, run>>

NextIter == \E g \in IterGeometries : \E index \in Regions(g.shape) : Iterate(g, index)

SpecIter == Init /\ [][NextIter]_vars

\* the positions of the box a slice list selects within a shape
Box(slices, shape) ==
    {pos \in Positions(shape) :
        \A k \in 1..Len(shape) :
            pos[k] >= slices[k].start /\ pos[k] < slices[k].stop}

\* C6: for every normalized in-bounds slice list, the sub-regions the chunk
\* iterator yields are pairwise disjoint and their union is exactly the
\* requested region, each is the part of the dataset its chunk's local slice
\* holds, every local slice lies within [0, chunk_size] and every chunk index
\* lies within the chunk grid.
C6_MappingComplete ==
    op.name = "iterator" =>
        LET self   == op.self
            recs   == op.records
            region == tshape(op.slices)
            n      == self.ndim
        IN  /\ \A j \in 1..Len(recs), k \in 1..n :
                  /\ recs[j].idx[k] >= 0 /\ recs[j].idx[k] < self.chunks[k]
                  /\ recs[j].cslice[k].start >= 0
                  /\ recs[j].cslice[k].start <= recs[j].cslice[k].stop
                  /\ recs[j].cslice[k].stop <= self.chunk_size[k]
                  /\ recs[j].gslice[k].start >= 0
                  /\ recs[j].gslice[k].stop - recs[j].gslice[k].start
                       = recs[j].cslice[k].stop - recs[j].cslice[k].start
                  /\ op.slices[k].start + recs[j].gslice[k].start
                       = recs[j].idx[k] * self.chunk_size[k]
                           + recs[j].cslice[k].start
            /\ \A i \in 1..Len(recs), j \in 1..Len(recs) :
                  i # j => Box(recs[i].gslice, region)
                             \cap Box(recs[j].gslice, region) = {}
            /\ UNION {Box(recs[j].gslice, region) : j \in 1..Len(recs)}
                 = Positions(region)

\* C6 witness: a two-axis region that starts inside a chunk, spans several
\* chunks on both axes and ends on a chunk boundary inside the dataset
C6_Witness ==
    /\ op.name = "iterator"
    /\ op.self.ndim = 2
    /\ Len(op.records) >= 4
    /\ op.slices[1].start % op.self.chunk_size[1] # 0
    /\ op.slices[2].stop % op.self.chunk_size[2] = 0
    /\ op.slices[2].stop < op.self.shape[2]

\* the sequential read of the same region by an instance of width 1
SequentialRead(p, self, index) == getitem(p, [self EXCEPT !.njobs = 1], index)

\* C7: for a fixed pool state and any in-bounds region, a read with
\* parallelism width > 1 returns what the read with width 1 returns, whatever
\* the order in which the reader tasks run and store into the shared output.
C7_ParallelReadEquivalence ==
    op.name = "getitem_parallel" =>
        LET s == SequentialRead(pool, handle[op.ds], op.index)
        IN  /\ op.err = s.err
            /\ op.result = s.val

\* the parallel and the sequential read agree on every region that holds at
\* least one element
ParallelReadAgreesOnElements ==
    (op.name = "getitem_parallel" /\ Prod(IndexShape(op.index)) > 0) =>
        LET s == SequentialRead(pool, handle[op.ds], op.index)
        IN  /\ op.err = s.err
            /\ op.result = s.val

\* a parallel read of several chunks, stored and missing, has returned
ParallelReadOfSeveralChunks ==
    /\ op.name = "getitem_parallel"
    /\ op.err = ""
    /\ Len(_get_chunk_slice_iterator(handle[op.ds],
             _process_slices(handle[op.ds], op.index).slices)) >= 3
    /\ \E t \in GridIndexes(handle[op.ds].chunks) : _has_chunk(pool, handle[op.ds], t)
    /\ \E t \in GridIndexes(handle[op.ds].chunks) : ~_has_chunk(pool, handle[op.ds], t)

\* the names taken in the namespace a creation in the in-memory backend
\* addresses: the dataset table of the connection, or the links and the
\* dataset table of the group
NamesTaken(c, scope, gid, kind) ==
    IF scope = "connection" /\ kind = "create_dataset" THEN DOMAIN c.datasets
    ELSE DOMAIN Obj(c, gid).links \cup DOMAIN Obj(c, gid).datasets

\* C5: creating a group or a dataset under a name that already exists in the
\* namespace it is created in fails, on the in-memory connection and groups
\* and on the pool, and leaves everything that existed unchanged.
C5_DuplicateCreationRejected ==
    [][/\ (/\ steps' = steps + 1
           /\ op'.name = "create"
           /\ has_object(pool, DsObj(op'.ds)))
          => (op'.err # "" /\ pool' = pool /\ handle' = handle)
       /\ (/\ steps' = steps + 1
           /\ op'.name \in {"create_group", "create_dataset"}
           /\ op'.path \in NamesTaken(ram, op'.scope, op'.group, op'.name))
          => (op'.err # "" /\ ram' = ram)]_vars

\* creating a group where a group of that name is linked, or a dataset where
\* the dataset table holds that name, fails and changes nothing
SameKindDuplicateRejected ==
    [][/\ (/\ steps' = steps + 1
           /\ op'.name = "create"
           /\ has_object(pool, DsObj(op'.ds)))
          => (op'.err # "" /\ pool' = pool /\ handle' = handle)
       /\ (/\ steps' = steps + 1
           /\ op'.name = "create_group"
           /\ op'.path \in DOMAIN Obj(ram, op'.group).links)
          => (op'.err # "" /\ ram' = ram)
       /\ (/\ steps' = steps + 1
           /\ op'.name = "create_dataset"
           /\ op'.path \in (IF op'.scope = "connection" THEN DOMAIN ram.datasets
                            ELSE DOMAIN Obj(ram, op'.group).datasets))
          => (op'.err # "" /\ ram' = ram)]_vars

\* a dataset was created over a dataset, and a group over a group
SameKindDuplicateTried ==
    \/ /\ op.name = "create" /\ op.err # ""
       /\ \E t \in GridIndexes(handle[op.ds].chunks) :
             _has_chunk(pool, handle[op.ds], t)
    \/ /\ op.name = "create_dataset" /\ op.err # ""

\* the chunk grid is the ceiling of shape / chunk_size on every axis
GridIsCeiling(shape, chunk_size, grid) ==
    /\ Len(grid) = Len(shape)
    /\ Len(chunk_size) = Len(shape)
    /\ \A k \in 1..Len(shape) :
          /\ (grid[k] - 1) * chunk_size[k] < shape[k]
          /\ shape[k] <= grid[k] * chunk_size[k]

\* C10: every dataset created by MemGroup.create_dataset,
\* MemConnection.create_dataset or Dataset.create has on each axis i
\* (chunk_grid[i] - 1) * chunk_size[i] < shape[i] <= chunk_grid[i] * chunk_size[i];
\* when the chunk size was omitted the grid is 1 on every axis.
C10_ChunkGridInvariant ==
    /\ \A name \in DOMAIN handle :
          /\ GridIsCeiling(handle[name].shape, handle[name].chunk_size,
                           handle[name].chunks)
          /\ str2shape(pool[DsObj(name)].xattrs.chunks) = handle[name].chunks
    /\ \A i \in 0..(Len(ram.objs) - 1) :
          Obj(ram, i).kind = "dataset" =>
              GridIsCeiling(Obj(ram, i).shape, Obj(ram, i).chunk_size,
                            Obj(ram, i).chunk_grid)
    /\ (op.name = "create" /\ op.err = "" /\ op.chunks = ChunksNone) =>
          \A k \in 1..handle[op.ds].ndim : handle[op.ds].chunks[k] = 1
    /\ (op.name = "create_dataset" /\ op.err = ""
          /\ op.chunk_size = ChunkSizeNone) =>
          \A k \in 1..Len(Obj(ram, op.id).shape) : Obj(ram, op.id).chunk_grid[k] = 1

\* C10 witness: a group holds a dataset whose chunk size does not divide its
\* extent, so the last chunk of the axis is partly beyond the shape
C10_Witness ==
    /\ op.name = "create_dataset"
    /\ op.err = ""
    /\ op.scope = "group"
    /\ Obj(ram, op.id).shape[1] % Obj(ram, op.id).chunk_size[1] # 0
    /\ Obj(ram, op.id).chunk_grid[1] >= 2
    /\ Cardinality(DOMAIN Obj(ram, op.id).data_chunks) >= 2

----------------------------------------------------------------------------
(* Slice normalization on its own, over indexes of every form *)

\* the datasets: one and two axes
SliceShapes ==
    {<<n>> : n \in 1..MaxSliceExtent}
    \cup {<<n, m>> : n \in 1..MaxSliceExtent, m \in 1..MaxSliceExtent}

\* the entries of an index: integers and slice bounds inside the axis, on its
\* edges, negative and beyond it; steps; the Ellipsis
SliceBounds == {<<>>} \cup {<<b>> : b \in (-1)..(MaxSliceExtent + 1)}
IndexEntries ==
    {IntIdx(k) : k \in (-1)..MaxSliceExtent}
    \cup {SliceIdx(a, b) : a \in SliceBounds, b \in SliceBounds}
    \cup {SliceStepIdx(<<>>, <<>>, <<c>>) : c \in {1, 2}}
    \cup {EllipsisIdx}

\* the indexes with at most one Ellipsis: up to n entries of any form, and
\* n + 1 entries that are each acceptable alone
Indexes(n) ==
    {idx \in UNION {[1..l -> IndexEntries] : l \in 0..n}
               \cup [1..(n + 1) -> {IntIdx(0), SliceNone, EllipsisIdx}] :
        Cardinality({j \in 1..Len(idx) : idx[j].kind = "ellipsis"}) <= 1}

\* ds._process_slices(index, detect_squeeze=True) on a fresh dataset
Normalize(shape, index) ==
    LET self == Dataset_create(EmptyMap, "a", shape, 0, ChunksNone, NoData,
                               FALSE, 1).ds[1]
        ps   == _process_slices(self, index)
    IN  /\ steps = 0
        /\ steps' = 1
        /\ op' = [name |-> "process_slices", err |-> ps.err, self |-> self,
                  index |-> index, slices |-> ps.slices, squeeze |-> ps.squeeze]
        /\ UNCHANGED <<backend, pool, handle, ram, run>>

NextSlice == \E shape \in SliceShapes : \E index \in Indexes(Len(shape)) : Normalize(shape, index)

SpecSlice == Init /\ [][NextSlice]_vars

\* the axis (1-based) entry j of an index addresses in a dataset of rank n:
\* entries before the Ellipsis count from the front, those after it from the
\* back
AxisOf(index, n, j) ==
    IF \E e \in 1..(j - 1) : index[e].kind = "ellipsis"
    THEN n - (Len(index) - j)
    ELSE j

\* entry j of the index names a position outside its axis, or a step other
\* than 1
BadEntry(self, index, j) ==
    LET k == AxisOf(index, self.ndim, j)
        s == index[j]
    IN  \/ s.kind = "int" /\ (s.start[1] < 0 \/ s.start[1] >= self.shape[k])
        \/ s.kind = "slice" /\ s.start # <<>>
              /\ (s.start[1] < 0 \/ s.start[1] > self.shape[k])
        \/ s.kind = "slice" /\ s.stop # <<>>
              /\ (s.stop[1] < 0 \/ s.stop[1] > self.shape[k])
        \/ s.kind = "slice" /\ s.step # <<>> /\ s.step[1] # 1

\* C11: whenever _process_slices returns for an index of integers, slices and
\* an Ellipsis on a dataset of rank n, the result has exactly n slices with
\* 0 <= start <= stop <= shape[axis], an integer k has become [k, k+1) and
\* exactly the integer-indexed axes are recorded for squeeze; an index with an
\* out-of-bounds or negative position, a non-unit step or more than n entries
\* fails instead of returning.
C11_SliceNormalization ==
    op.name = "process_slices" =>
        LET self == op.self
            n    == self.ndim
            idx  == op.index
        IN  /\ op.err = "" =>
                /\ Len(op.slices) = n
                /\ \A k \in 1..Len(op.slices) :
                      /\ 0 <= op.slices[k].start
                      /\ op.slices[k].start <= op.slices[k].stop
                      /\ k <= n => op.slices[k].stop <= self.shape[k]
                /\ \A j \in 1..Len(idx) :
                      idx[j].kind = "int" =>
                          /\ AxisOf(idx, n, j) \in 1..Len(op.slices)
                          /\ op.slices[AxisOf(idx, n, j)]
                               = Sl(idx[j].start[1], idx[j].start[1] + 1)
                /\ op.squeeze = {AxisOf(idx, n, j) - 1 :
                                   j \in {i \in 1..Len(idx) : idx[i].kind = "int"}}
            /\ (\/ Len(idx) > n
                \/ \E j \in 1..Len(idx) :
                      AxisOf(idx, n, j) \in 1..n /\ BadEntry(self, idx, j))
               => op.err # ""

\* the part of C11 that concerns slices: with no integer entry in the index
SliceEntriesNormalized ==
    (op.name = "process_slices"
       /\ \A j \in 1..Len(op.index) : op.index[j].kind # "int")
    => LET self == op.self
           n    == self.ndim
           idx  == op.index
       IN  /\ op.err = "" =>
               /\ Len(op.slices) = n
               /\ op.squeeze = {}
               /\ \A k \in 1..n :
                     /\ 0 <= op.slices[k].start
                     /\ op.slices[k].start <= op.slices[k].stop
                     /\ op.slices[k].stop <= self.shape[k]
           /\ (\/ Len(idx) > n
               \/ \E j \in 1..Len(idx) : BadEntry(self, idx, j))
              => op.err # ""

\* the path resolves: get_group returns a group reachable from the group
Resolves(c, gid, path) ==
    LET g == MemGroup_get_group(c, gid, path)
    IN  g.err = "" /\ Obj(c, g.val[1]).kind = "group"

\* C12: for every path that get_group resolves to a group reachable through
\* the links tables, has_group(path) returns true, on a MemGroup and through
\* MemConnection.has_group.
C12_HasGroupTrue ==
    (op.name = "has_group" /\ Resolves(ram, op.group, op.path)) =>
        (op.err = "" /\ op.result = PyTrue)

\* has_group fails exactly on the paths get_group fails on
HasGroupFailsAsGetGroup ==
    op.name = "has_group" =>
        op.err = MemGroup_get_group(ram, op.group, op.path).err

\* the links table of the group that holds the final link of the path
FinalHolder(c, gid, path) ==
    IF Len(split(path)) = 1 THEN gid
    ELSE LET parent == SubSeq(path, 1, Len(path) - Len(split(path)[Len(split(path))]) - 1)
         IN  MemGroup_get_group(c, gid, parent).val[1]

\* the connection with the final link of the path taken out of its table
WithoutFinalLink(c, gid, path) ==
    LET h == FinalHolder(c, gid, path)
        n == split(path)[Len(split(path))][1]
    IN  [c EXCEPT !.objs[h + 1].links = Unbind(c.objs[h + 1].links, n)]

\* C13: del_group(path) succeeds for every path that resolves to a group and
\* removes exactly the final link of the path from the links table that holds
\* it, every sibling link and every other table staying as it was; it fails
\* with GroupNotFound only when the path does not resolve.
C13_DelGroupRemovesLink ==
    [][op'.name = "del_group" =>
          /\ Resolves(ram, op'.group, op'.path) =>
                /\ op'.err = ""
                /\ ram' = WithoutFinalLink(ram, op'.group, op'.path)
          /\ op'.err = "GroupNotFoundError" =>
                ~Resolves(ram, op'.group, op'.path)]_vars

\* a deletion that fails leaves the connection as it was
FailedDelGroupChangesNothing ==
    [][(op'.name = "del_group" /\ op'.err # "") => ram' = ram]_vars

----------------------------------------------------------------------------
(* tools/dosnatohdf5.py: the walk over the hierarchy and its JSON form      *)

\* operations that build the hierarchy before it is projected
MaxTreeOps == 3

\* mutant of dosna_to_dict_recurse: the walk stops below the first level
dosna_to_dict_flat(c, gid) ==
    [key \in DOMAIN Obj(c, gid).links |->
        LET target == Obj(c, gid).links[key].target
        IN  IF "shape" \in DOMAIN Obj(c, target) THEN Obj(c, target)
            ELSE EmptyMap]

\* _recurse of dosna_to_dict: one entry per link, the dataset object when the
\* target has a shape, else the dictionary of the target's links
RECURSIVE dosna_to_dict_recurse(_, _)
dosna_to_dict_recurse(c, gid) ==
    [key \in DOMAIN Obj(c, gid).links |->
        LET target == Obj(c, gid).links[key].target
        IN  IF "shape" \in DOMAIN Obj(c, target) THEN Obj(c, target)
            ELSE dosna_to_dict_recurse(c, target)]

\* Dosnatohdf5.dosna_to_dict
dosna_to_dict(c) == dosna_to_dict_recurse(c, c.root)

\* isinstance(value, dict): a dictionary of the walk has names for keys, a
\* dataset object has its attributes
isdict(value) == "shape" \notin DOMAIN value

\* dtype.__name__ of a numpy scalar type
dtype_name(dtype) == dtype.name

\* ndarray.tolist() of the chunk grid: the same numbers as a list
tolist(a) == [i \in 1..Len(a) |-> a[i]]

\* _recurse of dosnadict_to_jsondict
RECURSIVE dosnadict_to_jsondict_recurse(_)
dosnadict_to_jsondict_recurse(dosnadict) ==
    [key \in DOMAIN dosnadict |->
        LET value == dosnadict[key]
        IN  IF isdict(value) THEN dosnadict_to_jsondict_recurse(value)
            ELSE [name       |-> key,
                  shape      |-> value.shape,
                  dtype      |-> dtype_name(value.dtype),
                  fillvalue  |-> value.fillvalue,
                  chunk_size |-> value.chunk_size,
                  chunk_grid |-> tolist(value.chunk_grid),
                  is_dataset |-> TRUE]]

\* Dosnatohdf5.dosnadict_to_jsondict (the dictionary it returns and writes)
dosnadict_to_jsondict(dosnadict) == dosnadict_to_jsondict_recurse(dosnadict)

\* the caller: builds a hierarchy below the root group, then projects it
TreeStep ==
    /\ steps < MaxTreeOps
    /\ backend = "ram"
    /\ op.name # "dosnadict_to_jsondict"
    /\ steps' = steps + 1
    /\ UNCHANGED <<backend, pool, handle, run>>

TreeCreateGroup(gid, path) ==
    /\ TreeStep
    /\ LET r == MemGroup_create_group(ram, gid, path, AttrsNone)
       IN  /\ ram' = r.ram
           /\ op' = [name |-> "create_group", err |-> r.err]

TreeCreateDataset(gid, name, g, fillvalue) ==
    /\ TreeStep
    /\ LET r == MemGroup_create_dataset(ram, gid, name, g.shape, fillvalue,
                                        g.chunk_size)
       IN  /\ ram' = r.ram
           /\ op' = [name |-> "create_dataset", err |-> r.err]

TreeDelDataset(gid, name) ==
    /\ TreeStep
    /\ LET r == MemGroup_del_dataset(ram, gid, name)
       IN  /\ ram' = r.ram
           /\ op' = [name |-> "del_dataset", err |-> r.err]

ToJson ==
    /\ backend = "ram"
    /\ op.name # "dosnadict_to_jsondict"
    /\ op' = [name |-> "dosnadict_to_jsondict", err |-> "",
              result |-> dosnadict_to_jsondict(dosna_to_dict(ram))]
    /\ UNCHANGED <<backend, pool, handle, ram, run, steps>>

NextTree ==
    \/ \E gid \in GroupIds, path \in Names : TreeCreateGroup(gid, path)
    \/ \E gid \in GroupIds, name \in Names, g \in SmallRamGeometries,
          fillvalue \in FillValues : TreeCreateDataset(gid, name, g, fillvalue)
    \/ \E gid \in GroupIds, name \in Names : TreeDelDataset(gid, name)
    \/ ToJson

SpecTree == InitRam /\ [][NextTree]_vars

\* the object at `gid` as the claim describes it: one member per link, a
\* record of the dataset's fields for a dataset, the object of the group for
\* a group
RECURSIVE ProjectionOf(_, _, _)
ProjectionOf(c, gid, json) ==
    /\ DOMAIN json = DOMAIN Obj(c, gid).links
    /\ \A n \in DOMAIN json :
          LET o == Obj(c, Obj(c, gid).links[n].target)
          IN  IF o.kind = "dataset"
              THEN /\ DOMAIN json[n] = {"name", "shape", "dtype", "fillvalue",
                                        "chunk_size", "chunk_grid", "is_dataset"}
                   /\ json[n].name = o.name
                   /\ json[n].shape = o.shape
                   /\ json[n].dtype = o.dtype.name
                   /\ json[n].fillvalue = o.fillvalue
                   /\ json[n].chunk_size = o.chunk_size
                   /\ json[n].chunk_grid = o.chunk_grid
                   /\ json[n].is_dataset = TRUE
              ELSE ProjectionOf(c, Obj(c, gid).links[n].target, json[n])

ChunkContent(p, self, t) ==
    IF _has_chunk(p, self, t) THEN get_data(p, chunkname(self, t)).flat
    ELSE Full(self.chunk_size, self.fillvalue).flat

\* the dataset position of the j-th element of the chunk of grid cell t
GlobalPos(self, t, j) ==
    [k \in 1..self.ndim |->
        t[k] * self.chunk_size[k] + NdIndex(self.chunk_size)[j][k]]

InRegion(pos, region) ==
    \A k \in 1..Len(region) :
        pos[k] >= region[k].start /\ pos[k] < region[k].stop

\* C15: a successful region write ds[R] = V changes no element outside R:
\* every position of every chunk that lies outside R keeps the value it had
\* (the fill value when the chunk did not exist), and the chunk objects of
\* the grid cells R does not touch are not modified.
C15_WriteFrame ==
    [][(Step /\ op'.name = "setitem" /\ op'.err = "") =>
          LET self   == handle[op'.ds]
              region == RegionOf(op'.index)
          IN  \A t \in GridIndexes(self.chunks) :
                 /\ \A j \in 1..Prod(self.chunk_size) :
                       ~InRegion(GlobalPos(self, t, j), region) =>
                           ChunkContent(pool', self, t)[j]
                             = ChunkContent(pool, self, t)[j]
                 /\ (t \notin ChunksOfRegion(self, region)
                       /\ _has_chunk(pool, self, t)) =>
                           pool'[chunkname(self, t)] = pool[chunkname(self, t)]]_vars

\* a write of the second ramp into part of a chunk that kept, outside the
\* region, what a write of the first ramp had put there
C15_Witness ==
    /\ Wrote
    /\ op.values.flat # <<>>
    /\ op.values.flat[1] > 20
    /\ LET self   == handle[op.ds]
           region == RegionOf(op.index)
       IN  \E t \in ChunksOfRegion(self, region) :
              \E i, j \in 1..Prod(self.chunk_size) :
                 /\ InRegion(GlobalPos(self, t, i), region)
                 /\ ChunkContent(pool, self, t)[i] > 20
                 /\ ~InRegion(GlobalPos(self, t, j), region)
                 /\ ChunkContent(pool, self, t)[j] > 10
                 /\ ChunkContent(pool, self, t)[j] < 20

\* C16: a region write ds[R] = V creates chunk objects only for the grid
\* cells that contain a position of R; when R stops on a multiple of the
\* chunk size below the axis extent, the next chunk is not created.
C16_ExactMaterialization ==
    [][(Step /\ op'.name = "setitem" /\ op'.err = "") =>
          Materialized(pool', handle[op'.ds])
            \ Materialized(pool, handle[op'.ds])
              \subseteq ChunksOfRegion(handle[op'.ds], RegionOf(op'.index))]_vars

\* every cell that contains a position of R has a chunk object after the write
TouchedCellsMaterialized ==
    Wrote => ChunksOfRegion(handle[op.ds], RegionOf(op.index))
               \subseteq Materialized(pool, handle[op.ds])

----------------------------------------------------------------------------
(* The public chunk operations under every form of chunk index              *)

\* the datasets of rank 2 and the chunk indexes handed to the operations:
\* every integer from -1 to the chunk count, every pair up to the grid extent
ChunkGeometries == {g \in Geometries : Len(g.shape) = 2}

ChunkIndexes(self) ==
    {ChunkInt(k) : k \in (0 - 1)..self.total_chunks}
    \cup {ChunkTuple(<<i, j>>) : i \in 0..self.chunks[1], j \in 0..self.chunks[2]}

\* ds.has_chunk(chunk_idx)
HasChunk(name, chunk_idx) ==
    /\ steps < MaxOps
    /\ backend = "pool"
    /\ run = Idle
    /\ LET r == ds_has_chunk(pool, handle[name], chunk_idx)
       IN  op' = [name |-> "has_chunk", ds |-> name, err |-> r.err,
                  chunk_idx |-> chunk_idx, result |-> r.val]
    /\ steps' = steps + 1
    /\ UNCHANGED <<backend, pool, handle, ram, run>>

NextChunk ==
    \/ \E g \in ChunkGeometries : Create("a", g, 0, FALSE, 1)
    \/ \E name \in DOMAIN handle :
          \E i \in ChunkIndexes(handle[name]) : HasChunk(name, i)
    \/ \E name \in DOMAIN handle :
          \E i \in ChunkIndexes(handle[name]) : GetChunk(name, i)
    \/ \E name \in DOMAIN handle :
          \E i \in ChunkIndexes(handle[name]) : GetChunkData(name, i)
    \/ \E name \in DOMAIN handle :
          \E i \in ChunkIndexes(handle[name]) : SetChunkData(name, i, 30)

SpecChunk == Init /\ [][NextChunk]_vars

\* the pool without the object `oname`
Except(p, oname) == [n \in DOMAIN p \ {oname} |-> p[n]]

\* the grid cell whose row-major rank is k
CellOfRank(self, k) ==
    CHOOSE t \in GridIndexes(self.chunks) : Ravel(t, self.chunks) = k

ChunkOps == {"has_chunk", "get_chunk", "get_chunk_data", "set_chunk_data"}

\* C17: on a dataset of rank > 1, has_chunk, get_chunk, get_chunk_data and
\* set_chunk_data given one integer k with 0 <= k < total chunk count address
\* the chunk whose row-major rank in the chunk grid is k; an index with a
\* component >= the grid extent fails.
C17_FlatChunkIndexing ==
    [][(Step /\ op'.name \in ChunkOps) =>
          LET self == handle[op'.ds]
              i    == op'.chunk_idx
          IN  /\ (i.kind = "int" /\ self.ndim > 1
                    /\ i.v[1] >= 0 /\ i.v[1] < self.total_chunks) =>
                    LET t  == CellOfRank(self, i.v[1])
                        cn == chunkname(self, t)
                    IN  /\ op'.err = ""
                        /\ Except(pool', cn) = Except(pool, cn)
                        /\ op'.name = "has_chunk" =>
                              /\ op'.result = (cn \in DOMAIN pool)
                              /\ pool' = pool
                        /\ op'.name = "get_chunk" =>
                              ChunkContent(pool', self, t)
                                = ChunkContent(pool, self, t)
                                /\ cn \in DOMAIN pool'
                        /\ op'.name = "get_chunk_data" =>
                              /\ op'.result.flat = ChunkContent(pool, self, t)
                              /\ pool' = pool
                        /\ op'.name = "set_chunk_data" =>
                              /\ cn \in DOMAIN pool'
                              /\ ChunkContent(pool', self, t) = op'.values.flat
              /\ (i.kind = "tuple"
                    /\ \E k \in 1..Len(i.v) : i.v[k] >= self.chunks[k]) =>
                    (op'.err # "" /\ pool' = pool)]_vars

\* a chunk written through the flat index 2 of a 2 x 2 grid is the chunk (1, 0)
C17_Witness ==
    /\ op.name = "set_chunk_data"
    /\ op.err = ""
    /\ op.chunk_idx = ChunkInt(2)
    /\ handle[op.ds].chunks = <<2, 2>>
    /\ _has_chunk(pool, handle[op.ds], <<1, 0>>)
    /\ get_data(pool, chunkname(handle[op.ds], <<1, 0>>)).flat = op.values.flat
    /\ ~_has_chunk(pool, handle[op.ds], <<0, 1>>)

\* C18: a dataset of the connection is mirrored into the root group: while
\* the connection lists `name`, the root group has a link `name` whose target
\* is that dataset, after MemConnection.del_dataset it has none, and the
\* dataset lookups of the connection and of the root group agree.
C18_ConnectionMirrorsRoot ==
    backend = "ram" =>
        \A name \in Names :
           /\ MemConnection_has_dataset(ram, name)
                = MemGroup_has_dataset(ram, ram.root, name)
           /\ MemConnection_has_dataset(ram, name) =>
                 /\ name \in MemGroup_keys(ram, ram.root)
                 /\ Obj(ram, ram.root).links[name].target = ram.datasets[name]
           /\ (op.name = "del_dataset" /\ op.scope = "connection"
                 /\ op.err = "" /\ op.path = name) =>
                 name \notin MemGroup_keys(ram, ram.root)

\* the root group never lists a dataset created at connection scope only
ConnectionDatasetsApart ==
    backend = "ram" =>
        \A name \in DOMAIN ram.datasets :
           \A gid \in GroupIds :
              \A n \in DOMAIN Obj(ram, gid).links :
                 Obj(ram, gid).links[n].target # ram.datasets[name]

\* the names of the links of the group whose target is a dataset
DatasetLinks(c, gid) ==
    {n \in DOMAIN Obj(c, gid).links :
        Obj(c, Obj(c, gid).links[n].target).kind = "dataset"}

\* C20: in every MemGroup the names of the dataset table are exactly the
\* names of the links whose target is a dataset, so a dataset deleted from
\* the group is listed by none of keys(), values(), items(), get_objects().
C20_DatasetTableMatchesLinks ==
    backend = "ram" =>
        /\ \A gid \in GroupIds :
              DOMAIN Obj(ram, gid).datasets = DatasetLinks(ram, gid)
        /\ (op.name = "del_dataset" /\ op.scope = "group" /\ op.err = "") =>
              /\ op.path \notin MemGroup_keys(ram, op.group)
              /\ op.path \notin DOMAIN MemGroup_items(ram, op.group)
              /\ op.path \notin MemGroup_get_objects(ram, op.group)
              /\ \A id \in MemGroup_values(ram, op.group) :
                    Obj(ram, id).kind = "dataset" => Obj(ram, id).name # op.path

\* the dataset table never names anything the links do not
DatasetTableWithinLinks ==
    backend = "ram" =>
        \A gid \in GroupIds :
           DOMAIN Obj(ram, gid).datasets \subseteq DatasetLinks(ram, gid)

----------------------------------------------------------------------------
(* The parallel branches of Dataset.__setitem__ and Dataset.load: one task  *)
(* per record of the iterator (per grid cell for load), run by njobs        *)
(* threads; a task is _set_chunk_data, whose requests to the pool (the      *)
(* existence test, the read of the chunk, its rewrite or its creation) are  *)
(* separate steps that interleave with those of the other tasks             *)

\* the second half of DataChunk.set_slices: the assignment into the content
\* read before, and the rewrite of the whole chunk
set_slices_store(p, oname, data, slices, value) ==
    IF ~Broadcastable(value.shape, SlicedShape(data.shape, slices))
    THEN Raise("ValueError: could not broadcast input array", p)
    ELSE Ok(chunk_write(p, oname, tobytes(AssignSlices(data, slices, value))))

\* the tasks of a parallel region write, and of a parallel load
SetItemTasks(self, slices) ==
    LET it == _get_chunk_slice_iterator(self, slices)
    IN  [j \in 1..Len(it) |->
            [idx |-> it[j].idx, slices |-> it[j].cslice,
             gslice |-> it[j].gslice, narrow |-> TRUE]]

LoadTasks(self) ==
    [j \in 1..Prod(self.chunks) |->
        [idx |-> NdIndex(self.chunks)[j],
         slices |-> _gchunk_bounds_slices(self, NdIndex(self.chunks)[j]),
         gslice |-> NoSlices, narrow |-> FALSE]]

Writing(kind, name, index, values, tasks) ==
    [ds |-> name, kind |-> kind, index |-> index, values |-> values,
     pending |-> tasks, inflight |-> {}, err |-> "", before |-> pool]

\* ds[index] = values with njobs > 1, up to the dispatch of the tasks
ParSetItem(name, index, base) ==
    /\ steps < MaxOps
    /\ backend = "pool"
    /\ run = Idle
    /\ handle[name].njobs > 1
    /\ LET self   == handle[name]
           values == Ramp(IndexShape(index), base)
           ps     == _process_slices(self, index)
           e      == IF self.read_only
                     THEN "DatasetException: dataset is read-only" ELSE ps.err
       IN  IF e # ""
           THEN /\ op' = [name |-> "write_parallel", kind |-> "setitem",
                          ds |-> name, err |-> e, index |-> index,
                          values |-> values, before |-> pool]
                /\ run' = Idle
           ELSE /\ op' = [name |-> "write_running", ds |-> name, err |-> ""]
                /\ run' = Writing("setitem", name, index, values,
                                  SetItemTasks(self, ps.slices))
    /\ steps' = steps + 1
    /\ UNCHANGED <<backend, pool, handle, ram>>

\* ds.load(data) with njobs > 1, up to the dispatch of the tasks
ParLoad(name, base) ==
    /\ steps < MaxOps
    /\ backend = "pool"
    /\ run = Idle
    /\ handle[name].njobs > 1
    /\ op' = [name |-> "write_running", ds |-> name, err |-> ""]
    /\ run' = Writing("load", name, <<>>, Ramp(handle[name].shape, base),
                      LoadTasks(handle[name]))
    /\ steps' = steps + 1
    /\ UNCHANGED <<backend, pool, handle, ram>>

\* a free thread takes the next task: it narrows the values and asks the pool
\* whether the chunk exists.  No task is handed out once one has raised.
WTaskBegin ==
    /\ run.ds # ""
    /\ run.err = ""
    /\ run.pending # <<>>
    /\ Cardinality(run.inflight) < handle[run.ds].njobs
    /\ LET rec == Head(run.pending)
       IN  IF rec.narrow /\ Len(run.values.shape) < Len(rec.gslice)
           THEN run' = [run EXCEPT
                   !.pending = Tail(run.pending),
                   !.err = "IndexError: too many indices for array"]
           ELSE run' = [run EXCEPT
                   !.pending = Tail(run.pending),
                   !.inflight = run.inflight \cup
                       {[idx    |-> rec.idx,
                         slices |-> rec.slices,
                         data   |-> IF rec.narrow
                                    THEN GetSlicesOf(run.values, rec.gslice)
                                    ELSE run.values,
                         phase  |-> IF _has_chunk(pool, handle[run.ds], rec.idx)
                                    THEN "read" ELSE "create",
                         buf    |-> NoData]}]
    /\ UNCHANGED <<backend, pool, handle, ram, op, steps>>

\* a task on an existing chunk reads the chunk's whole content
WTaskRead(t) ==
    /\ run.ds # ""
    /\ t \in run.inflight
    /\ t.phase = "read"
    /\ run' = [run EXCEPT
           !.inflight = (run.inflight \ {t}) \cup
               {[t EXCEPT !.phase = "write",
                          !.buf = get_data(pool, chunkname(handle[run.ds], t.idx))]}]
    /\ UNCHANGED <<backend, pool, handle, ram, op, steps>>

\* a task rewrites the chunk it read, or creates the chunk it found missing
WTaskWrite(t) ==
    /\ run.ds # ""
    /\ t \in run.inflight
    /\ t.phase \in {"write", "create"}
    /\ LET self == handle[run.ds]
           r    == IF t.phase = "write"
                   THEN set_slices_store(pool, chunkname(self, t.idx), t.buf,
                                         t.slices, t.data)
                   ELSE _create_chunk(pool, self, t.idx, t.data, t.slices)
       IN  /\ pool' = r.pool
           /\ run' = [run EXCEPT
                  !.inflight = run.inflight \ {t},
                  !.err = IF run.err = "" THEN r.err ELSE run.err]
    /\ UNCHANGED <<backend, handle, ram, op, steps>>

\* the call returns, or raises what a task raised, once no task is running
\* and none is left to hand out
ParWriteJoin ==
    /\ run.ds # ""
    /\ run.inflight = {}
    /\ run.pending = <<>> \/ run.err # ""
    /\ op' = [name |-> "write_parallel", kind |-> run.kind, ds |-> run.ds,
              err |-> run.err, index |-> run.index, values |-> run.values,
              before |-> run.before]
    /\ run' = Idle
    /\ UNCHANGED <<backend, pool, handle, ram, steps>>

NextParWrite ==
    \/ \E g \in Geometries : Create("a", g, 0 - 1, FALSE, 2)
    \/ \E name \in DOMAIN handle :
          \E index \in Regions(handle[name].shape), base \in Bases :
             ParSetItem(name, index, base)
    \/ \E name \in DOMAIN handle : ParLoad(name, 40)
    \/ WTaskBegin
    \/ \E t \in run.inflight : WTaskRead(t)
    \/ \E t \in run.inflight : WTaskWrite(t)
    \/ ParWriteJoin

SpecParWrite == Init /\ [][NextParWrite]_vars

\* what the same call does in sequential mode from the same pool state
SequentialWrite(p, self, kind, index, values) ==
    IF kind = "setitem" THEN setitem(p, [self EXCEPT !.njobs = 1], index, values)
    ELSE load(p, [self EXCEPT !.njobs = 1], values)

\* the chunk indexes of the tasks waiting and running
TaskCells == {run.pending[j].idx : j \in 1..Len(run.pending)}
               \cup {t.idx : t \in run.inflight}

\* C19: within one region write or one load in parallel mode every chunk
\* index is handled by exactly one task, and for every interleaving of the
\* tasks' steps the final pool state is the one the sequential mode produces
\* for the same call.
C19_ParallelWriteEquivalence ==
    /\ (run.ds # "" /\ "kind" \in DOMAIN run) =>
          Cardinality(TaskCells) = Len(run.pending) + Cardinality(run.inflight)
    /\ op.name = "write_parallel" =>
          pool = SequentialWrite(op.before, handle[op.ds], op.kind, op.index,
                                 op.values).pool

\* a parallel call whose sequential run raises nothing ends in the pool state
\* of the sequential run, and raises nothing
ParallelWriteAgreesOnSuccess ==
    (op.name = "write_parallel"
       /\ SequentialWrite(op.before, handle[op.ds], op.kind, op.index,
                          op.values).err = "") =>
          /\ op.err = ""
          /\ pool = SequentialWrite(op.before, handle[op.ds], op.kind, op.index,
                                    op.values).pool

\* a parallel write of several chunks, over chunks a parallel load stored
ParallelWriteOfSeveralChunks ==
    /\ op.name = "write_parallel"
    /\ op.kind = "setitem"
    /\ op.err = ""
    /\ Cardinality(ChunksOfRegion(handle[op.ds], RegionOf(op.index))) > 1
    /\ op.before # pool
    /\ \E t \in ChunksOfRegion(handle[op.ds], RegionOf(op.index)) :
          _has_chunk(op.before, handle[op.ds], t)

\* the child group linked under `name` in the group, in <<id>>; <<>> if none
ChildGroup(c, gid, name) ==
    IF /\ name \in DOMAIN Obj(c, gid).links
       /\ Obj(c, Obj(c, gid).links[name].target).kind = "group"
    THEN <<Obj(c, gid).links[name].target>>
    ELSE <<>>

\* C21: the groups and the datasets of one MemGroup share one namespace:
\* create_dataset(name) in a group that has a child group linked under `name`
\* leaves that link and that group as they were (get_group(name) returns the
\* same group with the same subtree), and create_group(name) where a dataset
\* `name` exists leaves the dataset in place.
C21_SharedChildNamespace ==
    [][/\ (/\ op'.name = "create_dataset"
           /\ op'.scope = "group"
           /\ ChildGroup(ram, op'.group, op'.path) # <<>>) =>
              /\ ChildGroup(ram', op'.group, op'.path)
                   = ChildGroup(ram, op'.group, op'.path)
              /\ MemGroup_get_group(ram', op'.group, <<op'.path>>)
                   = MemGroup_get_group(ram, op'.group, <<op'.path>>)
              /\ Obj(ram', ChildGroup(ram, op'.group, op'.path)[1])
                   = Obj(ram, ChildGroup(ram, op'.group, op'.path)[1])
       /\ (/\ op'.name = "create_group"
           /\ MemGroup_has_dataset(ram, op'.group, op'.path)) =>
              /\ MemGroup_has_dataset(ram', op'.group, op'.path)
              /\ Obj(ram', op'.group).datasets[op'.path]
                   = Obj(ram, op'.group).datasets[op'.path]
              /\ Obj(ram', op'.group).links = Obj(ram, op'.group).links]_vars

\* create_group never takes a name a dataset of the group is linked under
CreateGroupKeepsDataset ==
    [][(/\ op'.name = "create_group"
        /\ MemGroup_has_dataset(ram, op'.group, op'.path)) =>
           (op'.err # "" /\ ram' = ram)]_vars

----------------------------------------------------------------------------
(* The public operations of a dataset with chunk indexes of every sign      *)

\* the chunk indexes handed to get_chunk and set_chunk_data: every integer
\* from -1 to the chunk count and every index of the dataset's rank with
\* components from -1 to the grid extent
SignedChunkIndexes(self) ==
    {ChunkInt(k) : k \in (0 - 1)..self.total_chunks}
    \cup {ChunkTuple(t) :
            t \in {u \in [1..self.ndim -> (0 - 1)..MaxExtent] :
                      \A k \in 1..self.ndim : u[k] <= self.chunks[k]}}

NextGrid ==
    \/ \E g \in Geometries : Create("a", g, 0 - 1, FALSE, 1)
    \/ \E name \in DOMAIN handle :
          \E index \in Regions(handle[name].shape) : SetItem(name, index, 10)
    \/ \E name \in DOMAIN handle :
          \E i \in SignedChunkIndexes(handle[name]) : GetChunk(name, i)
    \/ \E name \in DOMAIN handle :
          \E i \in SignedChunkIndexes(handle[name]) : SetChunkData(name, i, 30)
    \/ \E name \in DOMAIN handle : Load(name, 40)
    \/ \E name \in DOMAIN handle : Map(name, "b", "inc")
    \/ \E name \in DOMAIN handle : Apply(name, "inc")
    \/ \E name \in DOMAIN handle : Delete(name)

SpecGrid == Init /\ [][NextGrid]_vars

\* the names of the chunk objects of the dataset `name` in the pool, and the
\* chunk index a name carries
ChunkObjects(p, name) ==
    {oname \in DOMAIN p :
        Len(oname) > 2 /\ oname[1] = "DataChunk" /\ oname[2] = name}

IndexOf(oname) == SubSeq(oname, 3, Len(oname))

\* C22: after any sequence of public operations (region writes,
\* set_chunk_data, get_chunk, load, map, apply) every chunk object named after
\* a dataset carries an index idx with 0 <= idx[i] < chunk_grid[i] on every
\* axis, so that delete() with the default cascade removes all of them.
C22_ChunkObjectsWithinGrid ==
    /\ \A name \in DOMAIN handle :
          \A oname \in ChunkObjects(pool, name) :
             /\ Len(IndexOf(oname)) = handle[name].ndim
             /\ \A k \in 1..handle[name].ndim :
                   /\ IndexOf(oname)[k] >= 0
                   /\ IndexOf(oname)[k] < handle[name].chunks[k]
    /\ (op.name = "delete" /\ op.err = "") => ChunkObjects(pool, op.ds) = {}

\* no chunk object ever carries an index at or above the grid extent
ChunkObjectsBelowGridExtent ==
    \A name \in DOMAIN handle :
       \A oname \in ChunkObjects(pool, name) :
          /\ Len(IndexOf(oname)) = handle[name].ndim
          /\ \A k \in 1..handle[name].ndim :
                IndexOf(oname)[k] < handle[name].chunks[k]

====
